---- MODULE Spec2Model ----
(***************************************************************************)
(* Workflow coordination core of Universal News: the Coordinator           *)
(* (OrchestratorAgent.process) sequencing the stage calls of one run, and  *)
(* the Deployment fan-out/fan-in (DeploymentAgent.process).                *)
(*                                                                         *)
(* Spec       one run of the Coordinator; every stage call is a call that  *)
(*            either returns a result or raises.                           *)
(* SpecDeploy one call of DeploymentAgent.process with its concurrent      *)
(*            per-channel tasks.                                           *)
(* SpecExec   one call of BaseAgent.execute: input and output validation   *)
(*            around the retry loop of _execute_with_retry.                *)
(* FairSpecExec SpecExec where the executor's own steps are taken; process *)
(*            itself may never return.                                     *)
(* SpecAlloc  one call of ChannelRouterAgent.process: scoring, the guided  *)
(*            allocation and the fallback rule.                            *)
(* SpecCancel Spec with a caller that may cancel the run at a suspension    *)
(*            point.                                                       *)
(* SpecShared two overlapping calls of BaseAgent.execute on one agent      *)
(*            instance and one event loop, sharing self.execution_log.     *)
(*                                                                         *)
(* Optional values (Python None / a value) are sequences: <<>> or <<v>>.   *)
(***************************************************************************)
EXTENDS Integers, Sequences, FiniteSets, TLC

\* ------------------------------------------------------------------ bounds
MaxChannels == 2        \* longest channel allocation list
MaxTime == 1            \* last tick of the wall clock
MaxTargets == 1         \* most journalist targets the targeting stage returns
MaxRetries == 3         \* largest agent_config.max_retries (the default is 3)
MaxLate == 1            \* how much longer than asked a time.sleep can take
MaxNotes == 2           \* most reasoning steps one execution log collects

\* --------------------------------------------------------------- constants
None == <<>>
Some(v) == <<v>>

\* models.py DistributionStatus
DistributionStatus ==
    {"draft", "pending", "analyzing", "planning", "deploying",
     "completed", "failed", "cancelled"}

\* models.py ChannelType, in declaration order
ChannelType ==
    <<"newswire", "journalist_outreach", "social_media", "owned_media",
      "paid_media", "seo_optimization", "community">>

ChannelTypes == {ChannelType[i] : i \in 1..Len(ChannelType)}

\* the stage names process() puts in steps_remaining, in order
AllSteps ==
    <<"content_analysis", "compliance_check", "channel_routing",
      "journalist_targeting", "deployment", "analytics">>

\* the stages served by a registered agent's execute()
AgentStages ==
    {"content_analysis", "compliance_check", "channel_routing",
     "journalist_targeting", "deployment"}

\* budgets an allocation can carry (600 is the stand-in mix's budget)
AllocBudgets == {0, 600}

\* what one delivery adapter can do: return a success outcome, return a
\* structured failure, return a partial outcome, or raise
Behaviours == {"ok", "fail", "partial", "raise"}

\* what the adapters of the repository do (none of them returns "partial"):
\* the behaviours a run's deployment result is drawn from
RunBehaviours == {"ok", "fail", "raise"}

\* --------------------------------------------------------- sequence helpers
SeqToSet(s) == {s[i] : i \in 1..Len(s)}

\* list.remove(x): drops the first occurrence of x
RECURSIVE Remove(_, _)
Remove(s, x) ==
    IF s = <<>> THEN <<>>
    ELSE IF Head(s) = x THEN Tail(s)
    ELSE <<Head(s)>> \o Remove(Tail(s), x)

ChannelIndex(c) == CHOOSE i \in 1..Len(ChannelType) : ChannelType[i] = c

\* channel_performance[channel]['reach_per_dollar']
ReachPerDollar(channel) ==
    CASE channel = "newswire" -> 200
      [] channel = "journalist_outreach" -> 150
      [] channel = "social_media" -> 500
      [] channel = "owned_media" -> 300
      [] channel = "paid_media" -> 100
      [] channel = "seo_optimization" -> 400
      [] channel = "community" -> 250

\* channel_performance[channel]['pickup_rate'], in hundredths
PickupRate(channel) ==
    CASE channel = "newswire" -> 15
      [] channel = "journalist_outreach" -> 25
      [] channel = "social_media" -> 5
      [] channel = "owned_media" -> 2
      [] channel = "paid_media" -> 8
      [] channel = "seo_optimization" -> 10
      [] channel = "community" -> 12

\* int(a / b): rounds towards zero
Trunc(a, b) == IF a >= 0 THEN a \div b ELSE -((-a) \div b)

\* int(expected_reach * perf['pickup_rate'])
ExpectedPickups(channel, expected_reach) ==
    Trunc(expected_reach * PickupRate(channel), 100)

\* a ChannelAllocation as the optimization step builds it
ChannelAllocation(channel, budget) ==
    [channel |-> channel, allocated_budget |-> budget,
     expected_reach |-> budget * ReachPerDollar(channel),
     expected_pickups |->
         ExpectedPickups(channel, budget * ReachPerDollar(channel))]

\* Channel allocation lists of at most MaxChannels entries, over distinct
\* channel types listed in declaration order.
RECURSIVE MixesOfLen(_)
MixesOfLen(n) ==
    IF n = 0 THEN {<<>>}
    ELSE {Append(m, ChannelAllocation(c, b)) :
            m \in {x \in MixesOfLen(n - 1) :
                     x = <<>> \/ ChannelIndex(x[Len(x)].channel) < Len(ChannelType)},
            c \in ChannelTypes, b \in AllocBudgets}

Ascending(m) ==
    \A i \in 1..Len(m) - 1 :
        ChannelIndex(m[i].channel) < ChannelIndex(m[i + 1].channel)

Mixes == UNION {{m \in MixesOfLen(n) : Ascending(m)} : n \in 0..MaxChannels}


\* ===================================================================
\* Deployment fan-out / fan-in: pure parts of DeploymentAgent
\* ===================================================================

ChannelDeploymentResult(channel, status, url, reach, error_message) ==
    [channel |-> channel, status |-> status, url |-> url, reach |-> reach,
     error_message |-> error_message]

\* `if not request.journalist_targets`: None and the empty list are falsy
NoTargets(journalist_targets) ==
    journalist_targets = None \/ journalist_targets[1] = 0

\* The outcome the delivery adapter of `channel` builds when its external
\* call succeeds (the _deploy_* methods' return values).
AdapterSuccess(channel, budget, journalist_targets) ==
    CASE channel = "newswire" ->
           ChannelDeploymentResult(channel, "success",
               Some("https://prweb.com/releases/NW"), Some(budget * 100), None)
      [] channel = "journalist_outreach" ->
           ChannelDeploymentResult(channel, "success",
               None, Some(journalist_targets[1] * 1000), None)
      [] channel = "social_media" ->
           ChannelDeploymentResult(channel, "success",
               Some("https://twitter.com/post/SM"), Some(10000), None)
      [] channel = "owned_media" ->
           ChannelDeploymentResult(channel, "success",
               Some("https://company.com/blog/OM"), Some(5000), None)
      [] channel = "paid_media" ->
           ChannelDeploymentResult(channel, "success",
               None, Some(budget * 100), None)
      [] channel = "seo_optimization" ->
           ChannelDeploymentResult(channel, "success",
               None, Some(budget * 200), None)
      [] channel = "community" ->
           ChannelDeploymentResult(channel, "success",
               Some("https://reddit.com/r/technology/COMM"), Some(8000), None)

\* str(e) of the exception a delivery adapter raises
DeliveryErrorText(channel) == "delivery error"

\* Faulty variant of _deploy_to_channel: no try/except, the exception escapes
\* the task.
DeployToChannelNoCatch(channel, request, budget, behaviour) ==
    IF channel = "journalist_outreach" /\ NoTargets(request.journalist_targets)
    THEN ChannelDeploymentResult(channel, "failed", None, None,
             Some("No journalist targets provided"))
    ELSE CASE behaviour = "ok" ->
                AdapterSuccess(channel, budget, request.journalist_targets)
           [] behaviour = "fail" ->
                ChannelDeploymentResult(channel, "failed", None, None,
                    Some("rejected"))
           [] behaviour = "partial" ->
                ChannelDeploymentResult(channel, "partial", None, None,
                    Some("partially delivered"))
           [] behaviour = "raise" ->
                [exception |-> DeliveryErrorText(channel)]

\* _deploy_to_channel: dispatch on the channel type; whatever the adapter
\* raises is caught and becomes a failed outcome of this channel.
_deploy_to_channel(channel, request, budget, behaviour) ==
    IF channel = "journalist_outreach" /\ NoTargets(request.journalist_targets)
    THEN ChannelDeploymentResult(channel, "failed", None, None,
             Some("No journalist targets provided"))
    ELSE CASE behaviour = "ok" ->
                AdapterSuccess(channel, budget, request.journalist_targets)
           [] behaviour = "fail" ->
                ChannelDeploymentResult(channel, "failed", None, None,
                    Some("rejected"))
           [] behaviour = "partial" ->
                ChannelDeploymentResult(channel, "partial", None, None,
                    Some("partially delivered"))
           [] behaviour = "raise" ->
                ChannelDeploymentResult(channel, "failed", None, None,
                    Some(DeliveryErrorText(channel)))

\* What the delivery adapter of `channel` can do for `request`: journalist
\* outreach without targets returns its structured failure before any
\* external call.
AdapterBehaviours(channel, request) ==
    IF channel = "journalist_outreach" /\ NoTargets(request.journalist_targets)
    THEN {"fail"}
    ELSE Behaviours

IsException(result) == "exception" \in DOMAIN result

\* Faulty variant of ProcessResults: an outcome that is neither a success nor
\* a failure is left out of both lists.
RECURSIVE ProcessResultsDropOther(_, _)
ProcessResultsDropOther(channel_results, acc) ==
    IF channel_results = <<>> THEN acc
    ELSE
      LET result == Head(channel_results)
          next ==
            IF IsException(result)
            THEN [acc EXCEPT !.failed_results =
                      Append(@, ChannelDeploymentResult("newswire", "failed",
                                    None, None, Some(result.exception)))]
            ELSE IF result.status = "success"
            THEN [acc EXCEPT
                    !.successful_results = Append(@, result),
                    !.public_urls =
                        IF result.url # None THEN Append(@, result.url[1]) ELSE @,
                    !.total_reach =
                        IF result.reach # None /\ result.reach[1] # 0
                        THEN @ + result.reach[1] ELSE @]
            ELSE IF result.status = "failed"
            THEN [acc EXCEPT !.failed_results = Append(@, result)]
            ELSE acc
      IN ProcessResultsDropOther(Tail(channel_results), next)

\* Faulty variant of ProcessResults: the reach of a successful outcome
\* replaces the total instead of being added to it.
RECURSIVE ProcessResultsLastReach(_, _)
ProcessResultsLastReach(channel_results, acc) ==
    IF channel_results = <<>> THEN acc
    ELSE
      LET result == Head(channel_results)
          next ==
            IF IsException(result)
            THEN [acc EXCEPT !.failed_results =
                      Append(@, ChannelDeploymentResult("newswire", "failed",
                                    None, None, Some(result.exception)))]
            ELSE IF result.status = "success"
            THEN [acc EXCEPT
                    !.successful_results = Append(@, result),
                    !.public_urls =
                        IF result.url # None THEN Append(@, result.url[1]) ELSE @,
                    !.total_reach =
                        IF result.reach # None /\ result.reach[1] # 0
                        THEN result.reach[1] ELSE @]
            ELSE [acc EXCEPT !.failed_results = Append(@, result)]
      IN ProcessResultsLastReach(Tail(channel_results), next)

\* The loop over the gathered results (process, "Process results").
RECURSIVE ProcessResults(_, _)
ProcessResults(channel_results, acc) ==
    IF channel_results = <<>> THEN acc
    ELSE
      LET result == Head(channel_results)
          next ==
            IF IsException(result)
            THEN [acc EXCEPT !.failed_results =
                      Append(@, ChannelDeploymentResult("newswire", "failed",
                                    None, None, Some(result.exception)))]
            ELSE IF result.status = "success"
            THEN [acc EXCEPT
                    !.successful_results = Append(@, result),
                    !.public_urls =
                        IF result.url # None THEN Append(@, result.url[1]) ELSE @,
                    !.total_reach =
                        IF result.reach # None /\ result.reach[1] # 0
                        THEN @ + result.reach[1] ELSE @]
            ELSE [acc EXCEPT !.failed_results = Append(@, result)]
      IN ProcessResults(Tail(channel_results), next)

EmptyAcc ==
    [successful_results |-> <<>>, failed_results |-> <<>>,
     public_urls |-> <<>>, total_reach |-> 0]

\* Faulty variant of DetermineOverallStatus: "partial" is never produced.
OverallStatusNoPartial(successful, channels) ==
    IF successful = channels THEN "success" ELSE "failed"

\* process, "Determine overall status"
DetermineOverallStatus(successful, channels) ==
    IF successful = channels THEN "success"
    ELSE IF successful > 0 THEN "partial"
    ELSE "failed"

\* Faulty variant of _generate_error_summary: every failure is attributed to
\* the newswire channel.
_generate_error_summaryNewswire(failed_results) ==
    IF failed_results = <<>> THEN None
    ELSE Some([i \in 1..Len(failed_results) |->
                  [channel |-> "newswire",
                   error_message |-> failed_results[i].error_message]])

\* _generate_error_summary: "; ".join of "<channel>: <error_message>" over
\* the failed results, kept as the list of its parts; None without failures
_generate_error_summary(failed_results) ==
    IF failed_results = <<>> THEN None
    ELSE Some([i \in 1..Len(failed_results) |->
                  [channel |-> failed_results[i].channel,
                   error_message |-> failed_results[i].error_message]])

\* The DistributionResults process returns for the gathered results.
DistributionResults(request, channel_results) ==
    LET acc == ProcessResults(channel_results, EmptyAcc)
    IN [channel_results |-> acc.successful_results \o acc.failed_results,
        total_channels_deployed |-> Len(request.channels),
        successful_deployments |-> Len(acc.successful_results),
        failed_deployments |-> Len(acc.failed_results),
        initial_reach |-> acc.total_reach,
        public_urls |-> acc.public_urls,
        overall_status |->
            DetermineOverallStatus(Len(acc.successful_results),
                                   Len(request.channels)),
        error_summary |-> _generate_error_summary(acc.failed_results)]


\* ===================================================================
\* State
\* ===================================================================
VARIABLES
    \* --- Coordinator (OrchestratorAgent) ---
    pc,                 \* position of process(): "idle", "run_<stage>",
                        \* "await_<stage>" (suspended in agent.execute),
                        \* "gate", "complete", "returned", "cancelled"
    agents,             \* the stages whose agent is registered (not None)
    output,             \* the run record (OrchestratorOutput), None before process
    state,              \* self.state: distribution_id -> run record
    now,                \* datetime.now(timezone.utc)
    \* --- observation of the run (history) ---
    stage_calls,        \* stage names whose execution was started, in order
    raised,             \* the stage whose execute raised, or "none"
    targeting_budget,   \* budget_allocation of the targeting request, if built
    targeting_skipped,  \* the "journalist outreach not selected" branch ran
    analytics_scheduled, \* number of _schedule_analytics calls
    deploy_attempts,    \* channel deliveries started for this run
    \* --- Deployment fan-out (DeploymentAgent.process) ---
    dpc,                \* "idle", "gather" (suspended in asyncio.gather), "done"
    drequest,           \* the DeploymentRequest: channels, journalist_targets
    tasks,              \* one task per allocated channel: state and result
    settle_order,       \* indices of the tasks in the order they settled
    dresult,            \* the DistributionResults returned, None before
    \* --- Stage Executor (BaseAgent.execute) ---
    epc,                \* "idle", "await_process" (suspended in process),
                        \* "sleep" (blocked in time.sleep), "done"
    input_data,         \* what execute was called with
    max_retries,        \* agent_config.max_retries
    attempt,            \* the loop variable of _execute_with_retry
    invocations,        \* calls of process made so far (history)
    waited,             \* the wait_time of every time.sleep, in order (history)
    last_exception,     \* last_exception of _execute_with_retry
    execution_log,      \* self.execution_log (AgentExecutionLog)
    process_output,     \* what the last call of process returned (history)
    eoutcome,           \* what execute did: returned a value / raised an error
    \* --- Channel Allocator (ChannelRouterAgent) ---
    apc,                \* "idle", "await_llm" (suspended in call_llm_json),
                        \* "done"
    arequest,           \* the ChannelRoutingRequest
    channel_scores,     \* the ranked (channel, score) list of _score_channels
    apath,              \* which rule produced the allocations
    mix,                \* the ChannelMix returned, None before
    llm_reply,          \* what call_llm_json did (history), None before
    forbidden_channels, \* forbidden_channels of the run's ComplianceReport
    \* --- concurrent execute calls on one agent instance ---
    xpc,                \* per call: "idle", "await_process", "sleep", "done"
    xattempt,           \* per call: `attempt` of its retry loop
    self_execution_log, \* self.execution_log: the log object it refers to
    logs                \* the AgentExecutionLog objects, by creating call

cvars == <<pc, agents, output, state, now, stage_calls, raised,
           targeting_budget, targeting_skipped, analytics_scheduled,
           deploy_attempts>>
dvars == <<dpc, drequest, tasks, settle_order, dresult>>
evars == <<epc, input_data, max_retries, attempt, invocations, waited,
           last_exception, execution_log, process_output, eoutcome>>
avars == <<apc, arequest, channel_scores, apath, mix, llm_reply,
           forbidden_channels>>
svars == <<xpc, xattempt, self_execution_log, logs>>
vars == <<pc, agents, output, state, now, stage_calls, raised,
          targeting_budget, targeting_skipped, analytics_scheduled,
          deploy_attempts, dpc, drequest, tasks, settle_order, dresult,
          epc, input_data, max_retries, attempt, invocations, waited,
          last_exception, execution_log, process_output, eoutcome,
          apc, arequest, channel_scores, apath, mix, llm_reply,
          forbidden_channels, xpc, xattempt, self_execution_log, logs>>

DistIds == {"d1"}

\* distribution ids a caller can ask get_status about: those of the requests
\* and one for which no run is ever started
StatusIds == DistIds \cup {"d0"}

\* register_agents / _initialize_agents: the stand-ins serve every stage,
\* every stage has its agent, or only the channel router is registered.
AgentConfigs == {{}, AgentStages, {"channel_routing"}}

Await(stage) ==
    CASE stage = "content_analysis" -> "await_content_analysis"
      [] stage = "compliance_check" -> "await_compliance_check"
      [] stage = "channel_routing" -> "await_channel_routing"
      [] stage = "journalist_targeting" -> "await_journalist_targeting"
      [] stage = "deployment" -> "await_deployment"

AwaitPCs == {Await(s) : s \in AgentStages}

\* the record as a caller can see it: process is suspended, or has returned
Observable == pc \in AwaitPCs \cup {"returned"}

O == output[1]

\* str(e) of the exception the execute of `stage` raises
ErrorText(stage) ==
    CASE stage = "content_analysis" -> "content_analysis failed"
      [] stage = "compliance_check" -> "compliance_check failed"
      [] stage = "channel_routing" -> "channel_routing failed"
      [] stage = "journalist_targeting" -> "journalist_targeting failed"
      [] stage = "deployment" -> "deployment failed"

\* ===================================================================
\* Coordinator: pure parts of OrchestratorAgent
\* ===================================================================

\* Faulty variant of NewOutput: the record starts as a draft.
NewOutputDraft(distribution_id, started_at) ==
    [distribution_id |-> distribution_id,
     status |-> "draft",
     current_step |-> "initialization",
     steps_completed |-> <<>>,
     steps_remaining |-> AllSteps,
     content_analysis |-> None,
     compliance_report |-> None,
     channel_mix |-> None,
     journalist_targeting |-> None,
     distribution_results |-> None,
     started_at |-> started_at,
     completed_at |-> None,
     total_execution_time_seconds |-> None,
     errors |-> <<>>]

\* OrchestratorOutput(...) of process, "Initialize output state"
NewOutput(distribution_id, started_at) ==
    [distribution_id |-> distribution_id,
     status |-> "pending",
     current_step |-> "initialization",
     steps_completed |-> <<>>,
     steps_remaining |-> AllSteps,
     content_analysis |-> None,
     compliance_report |-> None,
     channel_mix |-> None,
     journalist_targeting |-> None,
     distribution_results |-> None,
     started_at |-> started_at,
     completed_at |-> None,
     total_execution_time_seconds |-> None,
     errors |-> <<>>]

\* Faulty variant of StepDone: the name stays in steps_remaining.
StepDoneKeepRemaining(o, step) ==
    [o EXCEPT !.steps_completed = Append(@, step)]

\* Faulty variant of StepDone: the name is dropped and never recorded.
StepDoneDropOnly(o, step) ==
    [o EXCEPT !.steps_remaining = Remove(@, step)]

\* steps_completed.append(step); steps_remaining.remove(step)
StepDone(o, step) ==
    [o EXCEPT !.steps_completed = Append(@, step),
              !.steps_remaining = Remove(@, step)]

\* Faulty variant of _finalize_output: the timing is not stamped.
FinalizeOutputNoStamp(o, t) == o

\* _finalize_output
_finalize_output(o, t) ==
    [o EXCEPT !.completed_at = Some(t),
              !.total_execution_time_seconds = Some(t - o.started_at)]

\* Faulty variant of Fail: the run is reported as completed.
FailAsCompleted(o, message, t) ==
    _finalize_output([o EXCEPT !.status = "completed",
                               !.errors = Append(@, message)], t)

\* Faulty variant of Fail: the run is marked failed without an entry in its
\* error list.
FailNoMessage(o, message, t) ==
    _finalize_output([o EXCEPT !.status = "failed"], t)

\* status = FAILED; errors.append(message); return _finalize_output(output)
Fail(o, message, t) ==
    _finalize_output([o EXCEPT !.status = "failed",
                               !.errors = Append(@, message)], t)

\* Faulty variant of CanProceed: the gate lets every report through.
CanProceedAlways(report) == TRUE

\* the gate's test of the compliance report
CanProceed(report) == report.can_proceed

\* has_journalist_outreach of _run_parallel_targeting_and_prep
HasJournalistOutreach(channels) ==
    \E i \in 1..Len(channels) : channels[i].channel = "journalist_outreach"

\* Faulty variant of JournalistBudget: the budget of the first allocation of
\* the list, whatever its channel.
JournalistBudgetFirst(channels) == channels[1].allocated_budget

\* journalist_budget: the budget of the first journalist-outreach allocation
JournalistBudget(channels) ==
    IF HasJournalistOutreach(channels)
    THEN channels[CHOOSE i \in 1..Len(channels) :
                     /\ channels[i].channel = "journalist_outreach"
                     /\ \A j \in 1..(i - 1) :
                            channels[j].channel # "journalist_outreach"
                 ].allocated_budget
    ELSE 0

RECURSIVE SumBudgets(_)
SumBudgets(channels) ==
    IF channels = <<>> THEN 0
    ELSE Head(channels).allocated_budget + SumBudgets(Tail(channels))

RECURSIVE SumReach(_)
SumReach(channels) ==
    IF channels = <<>> THEN 0
    ELSE Head(channels).expected_reach + SumReach(Tail(channels))

RECURSIVE SumPickups(_)
SumPickups(channels) ==
    IF channels = <<>> THEN 0
    ELSE Head(channels).expected_pickups + SumPickups(Tail(channels))

\* a percentage num / den * 100, kept as its two terms; den = 0 is the
\* division that raises ZeroDivisionError
Ratio(num, den) == [num |-> num, den |-> den]

\* Faulty variant of _calculate_projections: the return on investment is
\* divided by the total budget without the guard.
_calculate_projectionsUnguarded(allocations) ==
    LET total_pickups == SumPickups(allocations)
        total_budget == SumBudgets(allocations)
    IN [reach |-> SumReach(allocations),
        pickups |-> total_pickups,
        backlinks |-> total_pickups * 8,
        roi_percentage |->
            Ratio(total_pickups * 1500 - total_budget, total_budget)]

\* _calculate_projections: sums over the allocations, 8 backlinks a pickup,
\* return on investment in percent of the total budget, 0 without a budget
_calculate_projections(allocations) ==
    LET total_pickups == SumPickups(allocations)
        total_budget == SumBudgets(allocations)
    IN [reach |-> SumReach(allocations),
        pickups |-> total_pickups,
        backlinks |-> total_pickups * 8,
        roi_percentage |->
            IF total_budget > 0
            THEN Ratio(total_pickups * 1500 - total_budget, total_budget)
            ELSE Ratio(0, 1)]

\* the ChannelMix process returns for its allocations
ChannelMix(channels) ==
    LET projections == _calculate_projections(channels)
    IN [channels |-> channels,
        total_allocated_budget |-> SumBudgets(channels),
        expected_total_reach |-> projections.reach,
        expected_media_pickups |-> projections.pickups,
        expected_backlinks |-> projections.backlinks,
        expected_roi_percentage |-> projections.roi_percentage]

\* Faulty variant of MockChannelMix: the stand-in allocates journalist
\* outreach.
MockChannelMixOutreach ==
    [channels |-> <<[channel |-> "journalist_outreach",
                     allocated_budget |-> 600,
                     expected_reach |-> 50000, expected_pickups |-> 20]>>,
     total_allocated_budget |-> 600,
     expected_total_reach |-> 50000,
     expected_media_pickups |-> 20,
     expected_backlinks |-> 150,
     expected_roi_percentage |-> Ratio(450, 100)]

\* the stand-in ChannelMix of _run_channel_routing
MockChannelMix ==
    [channels |-> <<[channel |-> "newswire", allocated_budget |-> 600,
                     expected_reach |-> 50000, expected_pickups |-> 20]>>,
     total_allocated_budget |-> 600,
     expected_total_reach |-> 50000,
     expected_media_pickups |-> 20,
     expected_backlinks |-> 150,
     expected_roi_percentage |-> Ratio(450, 100)]

\* the DeploymentRequest of _run_deployment
DeploymentRequest(o) ==
    [channels |-> o.channel_mix[1].channels,
     journalist_targets |->
        IF o.journalist_targeting # None
        THEN Some(o.journalist_targeting[1].targets)
        ELSE None]

\* the stand-in DistributionResults of _run_deployment
MockDistributionResults(channels) ==
    [channel_results |->
        [i \in 1..Len(channels) |->
            ChannelDeploymentResult(channels[i].channel, "success", None,
                                    Some(channels[i].expected_reach), None)],
     total_channels_deployed |-> Len(channels),
     successful_deployments |-> Len(channels),
     failed_deployments |-> 0,
     initial_reach |-> SumReach(channels),
     public_urls |-> <<>>,
     overall_status |-> "success",
     error_summary |-> None]


\* ===================================================================
\* Coordinator actions: OrchestratorAgent.process, one action per run of
\* code between two suspension points
\* ===================================================================

\* Faulty variant of SetOutput: self.state keeps a copy of the record taken
\* when the run started.
SetOutputCopy(o) ==
    /\ output' = Some(o)
    /\ state' = IF state[o.distribution_id] = None
                THEN [state EXCEPT ![o.distribution_id] = Some(o)]
                ELSE state

\* the run record and its entry in self.state are one object
SetOutput(o) ==
    /\ output' = Some(o)
    /\ state' = [state EXCEPT ![o.distribution_id] = Some(o)]

\* get_status: self.state.get(distribution_id), nothing for an unknown id
get_status(id) == IF id \in DOMAIN state THEN state[id] ELSE None

\* process: create the run record and store it in self.state
Start(id) ==
    /\ pc = "idle"
    /\ SetOutput(NewOutput(id, now))
    /\ pc' = "run_content_analysis"
    /\ UNCHANGED <<agents, now, stage_calls, raised, targeting_budget,
                   targeting_skipped, analytics_scheduled, deploy_attempts>>
    /\ UNCHANGED <<dvars, evars, avars, svars>>

\* _run_content_analysis up to the agent's execute (or through the stand-in)
RunContentAnalysis ==
    /\ pc = "run_content_analysis"
    /\ stage_calls' = Append(stage_calls, "content_analysis")
    /\ LET o1 == [O EXCEPT !.status = "analyzing",
                           !.current_step = "content_analysis"]
       IN IF "content_analysis" \in agents
          THEN /\ SetOutput(o1)
               /\ pc' = Await("content_analysis")
          ELSE /\ SetOutput(StepDone(
                      [o1 EXCEPT !.content_analysis = Some([mock |-> TRUE])],
                      "content_analysis"))
               /\ pc' = "run_compliance_check"
    /\ UNCHANGED <<agents, now, raised, targeting_budget, targeting_skipped,
                   analytics_scheduled, deploy_attempts>>
    /\ UNCHANGED <<dvars, evars, avars, svars>>

\* market_intelligence_agent.execute returned
ReturnContentAnalysis ==
    /\ pc = Await("content_analysis")
    /\ SetOutput(StepDone(
           [O EXCEPT !.content_analysis = Some([mock |-> FALSE])],
           "content_analysis"))
    /\ pc' = "run_compliance_check"
    /\ UNCHANGED <<agents, now, stage_calls, raised, targeting_budget,
                   targeting_skipped, analytics_scheduled, deploy_attempts>>
    /\ UNCHANGED <<dvars, evars, avars, svars>>

\* Faulty variant of RaiseStage: the first failure of a stage leaves process
\* as an exception, and the retry loop runs process again from the start.
RaiseStageRerun(stage) ==
    /\ pc = Await(stage)
    /\ raised' = stage
    /\ IF raised = "none"
          THEN /\ SetOutput(NewOutput(O.distribution_id, now))
               /\ pc' = "run_content_analysis"
          ELSE /\ SetOutput(Fail(O, ErrorText(stage), now))
               /\ pc' = "returned"
    /\ UNCHANGED <<agents, now, stage_calls, targeting_budget,
                   targeting_skipped, analytics_scheduled, deploy_attempts>>
    /\ UNCHANGED <<dvars, evars, avars, svars>>

\* Faulty variant of RaiseStage: the Coordinator calls the failed stage again.
RaiseStageRetry(stage) ==
    /\ pc = Await(stage)
    /\ stage_calls' = Append(stage_calls, stage)
    /\ raised' = stage
    /\ UNCHANGED <<pc, agents, output, state, now, targeting_budget,
                   targeting_skipped, analytics_scheduled, deploy_attempts>>
    /\ UNCHANGED <<dvars, evars, avars, svars>>

\* Faulty variant of RaiseStage: analytics is scheduled on the failed run too.
RaiseStageWithAnalytics(stage) ==
    /\ pc = Await(stage)
    /\ SetOutput(Fail(O, ErrorText(stage), now))
    /\ raised' = stage
    /\ analytics_scheduled' = analytics_scheduled + 1
    /\ pc' = "returned"
    /\ UNCHANGED <<agents, now, stage_calls, targeting_budget,
                   targeting_skipped, deploy_attempts>>
    /\ UNCHANGED <<dvars, evars, avars, svars>>

\* the execute of `stage` raised: process's except block
RaiseStage(stage) ==
    /\ pc = Await(stage)
    /\ SetOutput(Fail(O, ErrorText(stage), now))
    /\ raised' = stage
    /\ pc' = "returned"
    /\ UNCHANGED <<agents, now, stage_calls, targeting_budget,
                   targeting_skipped, analytics_scheduled, deploy_attempts>>
    /\ UNCHANGED <<dvars, evars, avars, svars>>

\* _run_compliance_check up to the agent's execute (or through the stand-in)
RunComplianceCheck ==
    /\ pc = "run_compliance_check"
    /\ stage_calls' = Append(stage_calls, "compliance_check")
    /\ LET o1 == [O EXCEPT !.current_step = "compliance_check"]
       IN IF "compliance_check" \in agents
          THEN /\ SetOutput(o1)
               /\ pc' = Await("compliance_check")
          ELSE /\ SetOutput(StepDone(
                      [o1 EXCEPT !.compliance_report =
                                     Some([can_proceed |-> TRUE])],
                      "compliance_check"))
               /\ pc' = "gate"
    /\ UNCHANGED <<agents, now, raised, targeting_budget, targeting_skipped,
                   analytics_scheduled, deploy_attempts>>
    /\ UNCHANGED <<dvars, evars, avars, svars>>

\* compliance_agent.execute returned a report
ReturnComplianceCheck(can_proceed) ==
    /\ pc = Await("compliance_check")
    /\ SetOutput(StepDone(
           [O EXCEPT !.compliance_report =
                         Some([can_proceed |-> can_proceed])],
           "compliance_check"))
    /\ pc' = "gate"
    /\ UNCHANGED <<agents, now, stage_calls, raised, targeting_budget,
                   targeting_skipped, analytics_scheduled, deploy_attempts>>
    /\ UNCHANGED <<dvars, evars, avars, svars>>

\* process, "Check if we can proceed": the report blocks the run
GateBlocked ==
    /\ pc = "gate"
    /\ ~CanProceed(O.compliance_report[1])
    /\ SetOutput(Fail(O, "Failed compliance check - cannot proceed", now))
    /\ pc' = "returned"
    /\ UNCHANGED <<agents, now, stage_calls, raised, targeting_budget,
                   targeting_skipped, analytics_scheduled, deploy_attempts>>
    /\ UNCHANGED <<dvars, evars, avars, svars>>

\* process, "Check if we can proceed": the run goes on
GatePassed ==
    /\ pc = "gate"
    /\ CanProceed(O.compliance_report[1])
    /\ pc' = "run_channel_routing"
    /\ UNCHANGED <<agents, output, state, now, stage_calls, raised,
                   targeting_budget, targeting_skipped, analytics_scheduled,
                   deploy_attempts>>
    /\ UNCHANGED <<dvars, evars, avars, svars>>


\* _run_channel_routing up to the agent's execute (or through the stand-in)
RunChannelRouting ==
    /\ pc = "run_channel_routing"
    /\ stage_calls' = Append(stage_calls, "channel_routing")
    /\ LET o1 == [O EXCEPT !.status = "planning",
                           !.current_step = "channel_routing"]
       IN IF "channel_routing" \in agents
          THEN /\ SetOutput(o1)
               /\ pc' = Await("channel_routing")
          ELSE /\ SetOutput(StepDone(
                      [o1 EXCEPT !.channel_mix = Some(MockChannelMix)],
                      "channel_routing"))
               /\ pc' = "run_journalist_targeting"
    /\ UNCHANGED <<agents, now, raised, targeting_budget, targeting_skipped,
                   analytics_scheduled, deploy_attempts>>
    /\ UNCHANGED <<dvars, evars, avars, svars>>

\* channel_router_agent.execute returned a channel mix
ReturnChannelRouting(channels) ==
    /\ pc = Await("channel_routing")
    /\ SetOutput(StepDone(
           [O EXCEPT !.channel_mix = Some(ChannelMix(channels))],
           "channel_routing"))
    /\ pc' = "run_journalist_targeting"
    /\ UNCHANGED <<agents, now, stage_calls, raised, targeting_budget,
                   targeting_skipped, analytics_scheduled, deploy_attempts>>
    /\ UNCHANGED <<dvars, evars, avars, svars>>

\* Faulty variant of RunJournalistTargeting: the skipped targeting stage is
\* counted as completed.
RunJournalistTargetingSkipCompleted ==
    /\ pc = "run_journalist_targeting"
    /\ LET channels == O.channel_mix[1].channels
       IN IF HasJournalistOutreach(channels)
          THEN /\ stage_calls' = Append(stage_calls, "journalist_targeting")
               /\ targeting_budget' = Some(JournalistBudget(channels))
               /\ targeting_skipped' = targeting_skipped
               /\ LET o1 == [O EXCEPT !.current_step = "journalist_targeting"]
                  IN IF "journalist_targeting" \in agents
                     THEN /\ SetOutput(o1)
                          /\ pc' = Await("journalist_targeting")
                     ELSE /\ SetOutput(StepDone(
                                 [o1 EXCEPT !.journalist_targeting =
                                                Some([targets |-> 0])],
                                 "journalist_targeting"))
                          /\ pc' = "run_deployment"
          ELSE /\ SetOutput(StepDone(O, "journalist_targeting"))
               /\ targeting_skipped' = TRUE
               /\ pc' = "run_deployment"
               /\ UNCHANGED <<stage_calls, targeting_budget>>
    /\ UNCHANGED <<agents, now, raised, analytics_scheduled, deploy_attempts>>
    /\ UNCHANGED <<dvars, evars, avars, svars>>

\* _run_parallel_targeting_and_prep up to the agent's execute, through the
\* stand-in, or through the skip branch
RunJournalistTargeting ==
    /\ pc = "run_journalist_targeting"
    /\ LET channels == O.channel_mix[1].channels
       IN IF HasJournalistOutreach(channels)
          THEN /\ stage_calls' = Append(stage_calls, "journalist_targeting")
               /\ targeting_budget' = Some(JournalistBudget(channels))
               /\ targeting_skipped' = targeting_skipped
               /\ LET o1 == [O EXCEPT !.current_step = "journalist_targeting"]
                  IN IF "journalist_targeting" \in agents
                     THEN /\ SetOutput(o1)
                          /\ pc' = Await("journalist_targeting")
                     ELSE /\ SetOutput(StepDone(
                                 [o1 EXCEPT !.journalist_targeting =
                                                Some([targets |-> 0])],
                                 "journalist_targeting"))
                          /\ pc' = "run_deployment"
          ELSE /\ SetOutput([O EXCEPT !.steps_remaining =
                                          Remove(@, "journalist_targeting")])
               /\ targeting_skipped' = TRUE
               /\ pc' = "run_deployment"
               /\ UNCHANGED <<stage_calls, targeting_budget>>
    /\ UNCHANGED <<agents, now, raised, analytics_scheduled, deploy_attempts>>
    /\ UNCHANGED <<dvars, evars, avars, svars>>

\* journalist_targeting_agent.execute returned `targets` targets
ReturnJournalistTargeting(targets) ==
    /\ pc = Await("journalist_targeting")
    /\ SetOutput(StepDone(
           [O EXCEPT !.journalist_targeting = Some([targets |-> targets])],
           "journalist_targeting"))
    /\ pc' = "run_deployment"
    /\ UNCHANGED <<agents, now, stage_calls, raised, targeting_budget,
                   targeting_skipped, analytics_scheduled, deploy_attempts>>
    /\ UNCHANGED <<dvars, evars, avars, svars>>

\* process after _run_deployment: mark as completed, _finalize_output
Complete(o, t) ==
    _finalize_output(
        [o EXCEPT !.status = "completed", !.current_step = "completed"], t)

\* _run_deployment up to the agent's execute (or through the stand-in)
RunDeployment ==
    /\ pc = "run_deployment"
    /\ stage_calls' = Append(stage_calls, "deployment")
    /\ LET o1 == [O EXCEPT !.status = "deploying",
                           !.current_step = "deployment"]
           channels == O.channel_mix[1].channels
       IN IF "deployment" \in agents
          THEN /\ SetOutput(o1)
               /\ deploy_attempts' = deploy_attempts + Len(channels)
               /\ pc' = Await("deployment")
          ELSE /\ SetOutput(StepDone(
                      [o1 EXCEPT !.distribution_results =
                                     Some(MockDistributionResults(channels))],
                      "deployment"))
               /\ deploy_attempts' = deploy_attempts
               /\ pc' = "complete"
    /\ UNCHANGED <<agents, now, raised, targeting_budget, targeting_skipped,
                   analytics_scheduled>>
    /\ UNCHANGED <<dvars, evars, avars, svars>>

\* The result DeploymentAgent.process computes when the delivery adapter of
\* channel i behaves as behaviours[i].
DeploymentOutcome(request, behaviours) ==
    DistributionResults(request,
        [i \in 1..Len(request.channels) |->
            _deploy_to_channel(request.channels[i].channel, request,
                               request.channels[i].allocated_budget,
                               behaviours[i])])

\* Faulty variant of ReturnDeployment: a deployment result with
\* overall_status failed fails the run.
ReturnDeploymentChecked ==
    /\ pc = Await("deployment")
    /\ \E behaviours \in [1..Len(O.channel_mix[1].channels) -> RunBehaviours] :
          /\ \A i \in DOMAIN behaviours :
                behaviours[i] \in
                    AdapterBehaviours(O.channel_mix[1].channels[i].channel,
                                      DeploymentRequest(O))
          /\ LET results == DeploymentOutcome(DeploymentRequest(O),
                                             behaviours)
                 o1 == StepDone([O EXCEPT !.distribution_results =
                                              Some(results)], "deployment")
             IN SetOutput(IF results.overall_status = "failed"
                          THEN Fail(o1, "deployment failed", now)
                          ELSE Complete(o1, now))
    /\ analytics_scheduled' = analytics_scheduled + 1
    /\ pc' = "returned"
    /\ UNCHANGED <<agents, now, stage_calls, raised, targeting_budget,
                   targeting_skipped, deploy_attempts>>
    /\ UNCHANGED <<dvars, evars, avars, svars>>

\* deployment_agent.execute returned its result; process goes on to
\* _schedule_analytics, marks the run completed and returns
ReturnDeployment ==
    /\ pc = Await("deployment")
    /\ \E behaviours \in [1..Len(O.channel_mix[1].channels) -> RunBehaviours] :
          /\ \A i \in DOMAIN behaviours :
                behaviours[i] \in
                    AdapterBehaviours(O.channel_mix[1].channels[i].channel,
                                      DeploymentRequest(O))
          /\ SetOutput(Complete(StepDone(
              [O EXCEPT !.distribution_results =
                            Some(DeploymentOutcome(DeploymentRequest(O),
                                                   behaviours))],
              "deployment"), now))
    /\ analytics_scheduled' = analytics_scheduled + 1
    /\ pc' = "returned"
    /\ UNCHANGED <<agents, now, stage_calls, raised, targeting_budget,
                   targeting_skipped, deploy_attempts>>
    /\ UNCHANGED <<dvars, evars, avars, svars>>

\* process after the stand-in deployment: _schedule_analytics, mark as
\* completed, _finalize_output, return
CompleteRun ==
    /\ pc = "complete"
    /\ analytics_scheduled' = analytics_scheduled + 1
    /\ SetOutput(Complete(O, now))
    /\ pc' = "returned"
    /\ UNCHANGED <<agents, now, stage_calls, raised, targeting_budget,
                   targeting_skipped, deploy_attempts>>
    /\ UNCHANGED <<dvars, evars, avars, svars>>

\* the wall clock advances while the run is not started or is suspended
Tick ==
    /\ pc \in AwaitPCs \cup {"idle"}
    /\ now < MaxTime
    /\ now' = now + 1
    /\ UNCHANGED <<pc, agents, output, state, stage_calls, raised,
                   targeting_budget, targeting_skipped, analytics_scheduled,
                   deploy_attempts>>
    /\ UNCHANGED <<dvars, evars, avars, svars>>

DeployIdle ==
    /\ dpc = "idle"
    /\ drequest = [channels |-> <<>>, journalist_targets |-> None]
    /\ tasks = <<>>
    /\ settle_order = <<>>
    /\ dresult = None

\* no run is in progress
CoordIdle ==
    /\ pc = "idle"
    /\ agents = AgentStages
    /\ output = None
    /\ state = [id \in StatusIds |-> None]
    /\ now = 0
    /\ stage_calls = <<>>
    /\ raised = "none"
    /\ targeting_budget = None
    /\ targeting_skipped = FALSE
    /\ analytics_scheduled = 0
    /\ deploy_attempts = 0

\* no execute call is in progress
ExecIdle ==
    /\ epc = "idle"
    /\ input_data = "declared"
    /\ max_retries = 1
    /\ attempt = 0
    /\ invocations = 0
    /\ waited = <<>>
    /\ last_exception = None
    /\ execution_log = None
    /\ process_output = None
    /\ eoutcome = None

\* no routing call is in progress
AllocIdle ==
    /\ apc = "idle"
    /\ arequest = None
    /\ channel_scores = <<>>
    /\ apath = "none"
    /\ mix = None
    /\ llm_reply = None
    /\ forbidden_channels = <<>>

\* the execute calls that can overlap on one agent instance
Calls == {"r1", "r2"}

\* no execute call has started on the shared agent
SharedIdle ==
    /\ xpc = [c \in Calls |-> "idle"]
    /\ xattempt = [c \in Calls |-> 0]
    /\ self_execution_log = None
    /\ logs = [c \in Calls |-> None]

Init ==
    /\ pc = "idle"
    /\ agents \in AgentConfigs
    /\ output = None
    /\ state = [id \in StatusIds |-> None]
    /\ now = 0
    /\ stage_calls = <<>>
    /\ raised = "none"
    /\ targeting_budget = None
    /\ targeting_skipped = FALSE
    /\ analytics_scheduled = 0
    /\ deploy_attempts = 0
    /\ DeployIdle
    /\ ExecIdle
    /\ AllocIdle
    /\ SharedIdle

Next ==
    \/ \E id \in DistIds : Start(id)
    \/ RunContentAnalysis
    \/ ReturnContentAnalysis
    \/ \E stage \in AgentStages : RaiseStage(stage)
    \/ RunComplianceCheck
    \/ \E can_proceed \in BOOLEAN : ReturnComplianceCheck(can_proceed)
    \/ GateBlocked
    \/ GatePassed
    \/ RunChannelRouting
    \/ \E channels \in Mixes : ReturnChannelRouting(channels)
    \/ RunJournalistTargeting
    \/ \E targets \in 0..MaxTargets : ReturnJournalistTargeting(targets)
    \/ RunDeployment
    \/ ReturnDeployment
    \/ CompleteRun
    \/ Tick

Spec == Init /\ [][Next]_vars

\* The caller cancels the task that runs execute while process is suspended
\* in the execute of a stage: asyncio.CancelledError is raised at the await.
\* It is no Exception, so `except Exception` of process does not handle it
\* and it leaves process, the retry loop and execute; the run record stays
\* as it was.
Cancel ==
    /\ pc \in AwaitPCs
    /\ pc' = "cancelled"
    /\ UNCHANGED <<agents, output, state, now, stage_calls, raised,
                   targeting_budget, targeting_skipped, analytics_scheduled,
                   deploy_attempts>>
    /\ UNCHANGED <<dvars, evars, avars, svars>>

NextCancel ==
    \/ Next
    \/ Cancel

SpecCancel == Init /\ [][NextCancel]_vars


\* ===================================================================
\* Deployment actions: DeploymentAgent.process and its channel tasks
\* ===================================================================

\* Faulty variant of LaunchAll: only the first channel's operation is started
\* before the stage waits.
LaunchFirstOnly(channels) ==
    [i \in 1..Len(channels) |->
        [st |-> IF i = 1 THEN "scheduled" ELSE "created",
         behaviour |-> "none", result |-> None]]

\* process, "Execute all channels in parallel": one coroutine per allocation,
\* all of them handed to asyncio.gather, which schedules every one as a task
LaunchAll(channels) ==
    [i \in 1..Len(channels) |->
        [st |-> "scheduled", behaviour |-> "none", result |-> None]]

\* Faulty variant of AllSettled: the wait ends with the first settled task.
FirstSettled(ts) == ts = <<>> \/ \E i \in 1..Len(ts) : ts[i].st = "done"

\* asyncio.gather(..., return_exceptions=True) resumes the stage when every
\* task has settled
AllSettled(ts) == \A i \in 1..Len(ts) : ts[i].st = "done"

\* the results gather hands back, in the order of the tasks
RECURSIVE Gathered(_)
Gathered(ts) ==
    IF ts = <<>> THEN <<>>
    ELSE IF Head(ts).st = "done"
         THEN <<Head(ts).result[1]>> \o Gathered(Tail(ts))
         ELSE Gathered(Tail(ts))

\* process up to `await asyncio.gather(...)`
DeployStart ==
    /\ dpc = "idle"
    /\ tasks' = LaunchAll(drequest.channels)
    /\ dpc' = "gather"
    /\ UNCHANGED <<drequest, settle_order, dresult>>
    /\ UNCHANGED <<cvars, evars, avars, svars>>

\* the task of channel i runs _deploy_to_channel to its end; its delivery
\* adapter behaves as `behaviour`
DeployChannel(i, behaviour) ==
    /\ dpc = "gather"
    /\ i \in 1..Len(tasks)
    /\ tasks[i].st = "scheduled"
    /\ behaviour \in AdapterBehaviours(drequest.channels[i].channel, drequest)
    /\ tasks' = [tasks EXCEPT ![i] =
                    [st |-> "done", behaviour |-> behaviour,
                     result |-> Some(_deploy_to_channel(
                                    drequest.channels[i].channel, drequest,
                                    drequest.channels[i].allocated_budget,
                                    behaviour))]]
    /\ settle_order' = Append(settle_order, i)
    /\ UNCHANGED <<dpc, drequest, dresult>>
    /\ UNCHANGED <<cvars, evars, avars, svars>>

\* gather returns: process reduces the results and returns
DeployGathered ==
    /\ dpc = "gather"
    /\ AllSettled(tasks)
    /\ dresult' = Some(DistributionResults(drequest, Gathered(tasks)))
    /\ dpc' = "done"
    /\ UNCHANGED <<drequest, tasks, settle_order>>
    /\ UNCHANGED <<cvars, evars, avars, svars>>

\* the deployment requests: a channel list and, when journalist outreach is
\* allocated, the targets the targeting stage produced
DeployRequests ==
    {[channels |-> m, journalist_targets |-> t] :
        m \in Mixes, t \in {None} \cup {Some(n) : n \in 0..MaxTargets}}

InitDeploy ==
    /\ pc = "idle"
    /\ agents = AgentStages
    /\ output = None
    /\ state = [id \in StatusIds |-> None]
    /\ now = 0
    /\ stage_calls = <<>>
    /\ raised = "none"
    /\ targeting_budget = None
    /\ targeting_skipped = FALSE
    /\ analytics_scheduled = 0
    /\ deploy_attempts = 0
    /\ dpc = "idle"
    /\ drequest \in {r \in DeployRequests :
                        HasJournalistOutreach(r.channels)
                        \/ r.journalist_targets = None}
    /\ tasks = <<>>
    /\ settle_order = <<>>
    /\ dresult = None
    /\ ExecIdle
    /\ AllocIdle
    /\ SharedIdle

NextDeploy ==
    \/ DeployStart
    \/ \E i \in 1..MaxChannels, behaviour \in Behaviours :
          DeployChannel(i, behaviour)
    \/ DeployGathered

SpecDeploy == InitDeploy /\ [][NextDeploy]_vars


\* ===================================================================
\* Stage Executor: BaseAgent.execute and _execute_with_retry
\* ===================================================================

\* What a caller can hand to execute, and what process can hand back: an
\* instance of the declared contract class, an instance of another
\* BaseModel class, or an object that is no BaseModel at all.
Values == {"declared", "other_model", "not_model"}

\* isinstance(x, BaseModel)
IsBaseModel(x) == x \in {"declared", "other_model"}

\* the exception classes _execute_with_retry tells apart
ErrorTypes == {"ValueError", "Exception"}

\* an exception object: its class, where it was raised, and in which attempt
Error(type, origin, n) == [type |-> type, origin |-> origin, attempt |-> n]

\* AgentExecutionLog(agent_name, distribution_id, started_at) with the
\* defaults of the other fields
AgentExecutionLog(started_at) ==
    [agent_name |-> "agent",
     started_at |-> started_at,
     completed_at |-> None,
     duration_seconds |-> None,
     llm_calls |-> 0,
     total_tokens |-> 0,
     cost_usd |-> 0,
     reasoning_steps |-> <<>>,
     success |-> FALSE,
     error_message |-> None]

\* Faulty variant of LogFailure: the call is logged as a success.
LogFailureAsSuccess(log, e, t) ==
    [log EXCEPT !.success = TRUE,
                !.completed_at = Some(t),
                !.duration_seconds = Some(t - log.started_at)]

\* execute, "Mark success"
LogSuccess(log, t) ==
    [log EXCEPT !.success = TRUE,
                !.completed_at = Some(t),
                !.duration_seconds = Some(t - log.started_at)]

\* execute's except block
LogFailure(log, e, t) ==
    [log EXCEPT !.success = FALSE,
                !.error_message = Some(e),
                !.completed_at = Some(t),
                !.duration_seconds = Some(t - log.started_at)]

Returns(v) == Some([kind |-> "return", value |-> v, error |-> None])
Raises(e) == Some([kind |-> "raise", value |-> None, error |-> Some(e)])

\* Faulty variant of NoRetry: no error class is exempt from the retry.
NoRetryNever(e) == FALSE

\* "Don't retry on validation errors": isinstance(e, ValueError)
NoRetry(e) == e.type = "ValueError"

\* Faulty variant of MoreAttempts: the loop never ends by itself.
MoreAttemptsAlways(n, limit) == TRUE

\* `attempt < max_retries - 1`: the loop has another iteration
MoreAttempts(n, limit) == n < limit - 1

\* Faulty variant of WaitTime: the delay does not grow.
WaitTimeConstant(n) == 1

\* wait_time = 2 ** attempt
WaitTime(n) == 2 ^ n

\* execute raises e to its caller: the except block fills the log
ExecuteRaises(e) ==
    /\ execution_log' = Some(LogFailure(execution_log[1], e, now))
    /\ eoutcome' = Raises(e)
    /\ epc' = "done"

\* execute from its call to the first call of process: the log is created,
\* the input validated, and the retry loop entered
Execute(inp, limit) ==
    /\ epc = "idle"
    /\ input_data' = inp
    /\ max_retries' = limit
    /\ IF IsBaseModel(inp)
       THEN /\ execution_log' = Some(AgentExecutionLog(now))
            /\ attempt' = 0
            /\ invocations' = invocations + 1
            /\ epc' = "await_process"
            /\ UNCHANGED eoutcome
       ELSE /\ execution_log' =
                  Some(LogFailure(AgentExecutionLog(now),
                                  Error("ValueError", "validate_input", 0), now))
            /\ eoutcome' = Raises(Error("ValueError", "validate_input", 0))
            /\ epc' = "done"
            /\ UNCHANGED <<attempt, invocations>>
    /\ UNCHANGED <<waited, last_exception, process_output, now>>
    /\ UNCHANGED <<pc, agents, output, state, stage_calls, raised,
                   targeting_budget, targeting_skipped, analytics_scheduled,
                   deploy_attempts>>
    /\ UNCHANGED <<dvars, avars, svars>>

\* process returned v: _execute_with_retry returns it, execute validates it
ProcessReturns(v) ==
    /\ epc = "await_process"
    /\ process_output' = Some(v)
    /\ IF IsBaseModel(v)
       THEN /\ execution_log' = Some(LogSuccess(execution_log[1], now))
            /\ eoutcome' = Returns(v)
            /\ epc' = "done"
       ELSE ExecuteRaises(Error("ValueError", "validate_output", attempt))
    /\ UNCHANGED <<input_data, max_retries, attempt, invocations, waited,
                   last_exception>>
    /\ UNCHANGED <<cvars, dvars, avars, svars>>

\* process raised an exception of class `type`: the except clause of the
\* retry loop, up to the propagation of the error or the start of the sleep
ProcessRaises(type) ==
    /\ epc = "await_process"
    /\ LET e == Error(type, "process", attempt)
       IN /\ last_exception' = Some(e)
          /\ IF NoRetry(e)
             THEN /\ ExecuteRaises(e)
                  /\ UNCHANGED waited
             ELSE IF MoreAttempts(attempt, max_retries)
             THEN /\ waited' = Append(waited, WaitTime(attempt))
                  /\ epc' = "sleep"
                  /\ UNCHANGED <<execution_log, eoutcome>>
             ELSE /\ ExecuteRaises(e)
                  /\ UNCHANGED waited
    /\ UNCHANGED <<input_data, max_retries, attempt, invocations,
                   process_output>>
    /\ UNCHANGED <<cvars, dvars, avars, svars>>

\* time.sleep(wait_time) returns after at least wait_time; the loop goes to
\* its next iteration and calls process again
Retry(late) ==
    /\ epc = "sleep"
    /\ now' = now + waited[Len(waited)] + late
    /\ attempt' = attempt + 1
    /\ invocations' = invocations + 1
    /\ epc' = "await_process"
    /\ UNCHANGED <<input_data, max_retries, waited, last_exception,
                   execution_log, eoutcome, process_output>>
    /\ UNCHANGED <<pc, agents, output, state, stage_calls, raised,
                   targeting_budget, targeting_skipped, analytics_scheduled,
                   deploy_attempts>>
    /\ UNCHANGED <<dvars, avars, svars>>

InitExec ==
    /\ CoordIdle
    /\ DeployIdle
    /\ ExecIdle
    /\ AllocIdle
    /\ SharedIdle

NextExec ==
    \/ \E inp \in Values, limit \in 1..MaxRetries : Execute(inp, limit)
    \/ \E v \in Values : ProcessReturns(v)
    \/ \E type \in ErrorTypes : ProcessRaises(type)
    \/ \E late \in 0..MaxLate : Retry(late)

SpecExec == InitExec /\ [][NextExec]_vars

\* The steps that are the executor's own: once a call of execute is made it
\* runs, and a sleep of the retry loop ends. Whether and when process
\* returns or raises is up to process: `await self.process(input_data)` has
\* no timeout around it, so nothing else ends an attempt.
ExecutorSteps ==
    \/ \E inp \in Values, limit \in 1..MaxRetries : Execute(inp, limit)
    \/ \E late \in 0..MaxLate : Retry(late)

FairSpecExec == SpecExec /\ WF_vars(ExecutorSteps)


\* ===================================================================
\* Channel Allocator: ChannelRouterAgent
\* Scores are in hundredths (0.5 is 50); budgets are whole dollars.
\* ===================================================================

\* channel_performance[channel]['base_cost']
BaseCost(channel) ==
    CASE channel = "newswire" -> 500
      [] channel = "journalist_outreach" -> 300
      [] channel = "social_media" -> 0
      [] channel = "owned_media" -> 0
      [] channel = "paid_media" -> 1000
      [] channel = "seo_optimization" -> 200
      [] channel = "community" -> 0

\* channel_performance[channel]['industries']: "all", or the listed ones
IndustryFit(channel, industry) ==
    CASE channel = "newswire" -> industry \in {"technology", "finance"}
      [] channel = "journalist_outreach" -> TRUE
      [] channel = "social_media" -> industry \in {"technology", "retail"}
      [] channel = "owned_media" -> TRUE
      [] channel = "paid_media" -> industry \in {"retail", "finance"}
      [] channel = "seo_optimization" -> TRUE
      [] channel = "community" -> industry \in {"technology"}

\* channel_performance[channel]['urgency_bonus'].get(urgency, 1.0), times 100
UrgencyBonus(channel, urgency) ==
    CASE channel = "newswire" /\ urgency = "immediate" -> 130
      [] channel = "newswire" /\ urgency = "urgent" -> 120
      [] channel = "journalist_outreach" /\ urgency = "immediate" -> 110
      [] channel = "social_media" /\ urgency = "immediate" -> 150
      [] channel = "social_media" /\ urgency = "urgent" -> 130
      [] channel = "paid_media" /\ urgency = "immediate" -> 120
      [] channel = "community" /\ urgency = "immediate" -> 140
      [] OTHER -> 100

Min(a, b) == IF a <= b THEN a ELSE b

\* the score _score_channels gives one channel
Score(channel, content_analysis, urgency, budget) ==
    LET fit == IF IndustryFit(channel, content_analysis.primary_industry)
               THEN 20 ELSE 0
        urgent == IF UrgencyBonus(channel, urgency) > 100
                  THEN (UrgencyBonus(channel, urgency) - 100) \div 10 ELSE 0
        news == IF content_analysis.newsworthiness_score > 70
                   /\ channel \in {"newswire", "journalist_outreach"}
                THEN 15 ELSE 0
        viral == IF content_analysis.viral_potential > 70
                    /\ channel \in {"social_media", "community"}
                 THEN 15 ELSE 0
        cost == IF BaseCost(channel) = 0 THEN 10
                ELSE IF BaseCost(channel) * 10 < budget * 3 THEN 5 ELSE 0
    IN Min(100, 50 + fit + urgent + news + viral + cost)

\* Faulty variant of InsertByScore: x goes before the entries of its own
\* score, so equal scores end up in reverse order.
RECURSIVE InsertByScoreBeforeTies(_, _)
InsertByScoreBeforeTies(sorted, x) ==
    IF sorted = <<>> THEN <<x>>
    ELSE IF Head(sorted).score > x.score
         THEN <<Head(sorted)>> \o InsertByScoreBeforeTies(Tail(sorted), x)
         ELSE <<x>> \o sorted

\* list.sort(key=score, reverse=True): stable, so equal scores keep their
\* order; x goes behind every entry whose score is not smaller
RECURSIVE InsertByScore(_, _)
InsertByScore(sorted, x) ==
    IF sorted = <<>> THEN <<x>>
    ELSE IF Head(sorted).score >= x.score
         THEN <<Head(sorted)>> \o InsertByScore(Tail(sorted), x)
         ELSE <<x>> \o sorted

RECURSIVE SortByScore(_)
SortByScore(scores) ==
    IF scores = <<>> THEN <<>>
    ELSE InsertByScore(SortByScore(SubSeq(scores, 1, Len(scores) - 1)),
                       scores[Len(scores)])

\* _filter_channels_by_compliance: the forced list when it is not empty,
\* every channel type otherwise
_filter_channels_by_compliance(forced_channels) ==
    IF forced_channels # None /\ forced_channels[1] # <<>>
    THEN forced_channels[1]
    ELSE ChannelType

\* _score_channels
_score_channels(channels, content_analysis, urgency, budget) ==
    SortByScore([i \in 1..Len(channels) |->
                    [channel |-> channels[i],
                     score |-> Score(channels[i], content_analysis, urgency,
                                     budget)]])

\* channel_scores[:n]
Top(scores, n) == SubSeq(scores, 1, Min(n, Len(scores)))

\* the ChannelAllocation of the fallback rule: a budget of 0 gets a reach
\* of 10000
FallbackEntry(channel, budget) ==
    LET expected_reach == IF budget > 0 THEN budget * ReachPerDollar(channel)
                          ELSE 10000
    IN [ChannelAllocation(channel, budget) EXCEPT
           !.expected_reach = expected_reach,
           !.expected_pickups = ExpectedPickups(channel, expected_reach)]

\* Faulty variant of FallbackBudget: the budget left is not a cap.
FallbackBudgetUncapped(channel, remaining_budget) ==
    IF BaseCost(channel) = 0 THEN 0
    ELSE BaseCost(channel) + (remaining_budget * 3) \div 10

\* the budget the fallback rule gives a channel:
\* min(base_cost + remaining_budget * 0.3, remaining_budget), 0 when free
FallbackBudget(channel, remaining_budget) ==
    IF BaseCost(channel) = 0 THEN 0
    ELSE Min(BaseCost(channel) + (remaining_budget * 3) \div 10,
             remaining_budget)

\* the loop of _fallback_allocation over the channels still to visit
RECURSIVE FallbackLoop(_, _, _)
FallbackLoop(todo, acc, remaining_budget) ==
    IF todo = <<>> \/ remaining_budget <= 0 THEN acc
    ELSE LET channel == Head(todo).channel
             budget == FallbackBudget(channel, remaining_budget)
         IN FallbackLoop(Tail(todo),
                         Append(acc, FallbackEntry(channel, budget)),
                         remaining_budget - budget)

\* _fallback_allocation
_fallback_allocation(scores, total_budget) ==
    FallbackLoop(Top(scores, 3), <<>>, total_budget)

\* `perf = next((p for ch, s, p in channel_scores if ch == channel), None)`
\* Faulty variant of Scored: every channel of the reply has performance data.
ScoredAlways(scores, channel) == TRUE

Scored(scores, channel) ==
    \E i \in 1..Len(scores) : scores[i].channel = channel

\* the loop of _optimize_budget_allocation over the entries of the reply:
\* an entry whose channel is no channel type, or is not among the scored
\* channels, is skipped
RECURSIVE GuidedLoop(_, _)
GuidedLoop(entries, scores) ==
    IF entries = <<>> THEN <<>>
    ELSE LET alloc == Head(entries)
             rest == GuidedLoop(Tail(entries), scores)
         IN IF alloc.channel \in ChannelTypes /\ Scored(scores, alloc.channel)
            THEN <<ChannelAllocation(alloc.channel, alloc.budget)>> \o rest
            ELSE rest

\* what the generative-text service can name as a channel and as a budget
LlmChannels == {"newswire", "social_media", "unknown"}
LlmBudgets == {-100, 600, 6000}

RECURSIVE LlmReplies(_)
LlmReplies(n) ==
    IF n = 0 THEN {<<>>}
    ELSE LlmReplies(n - 1) \cup
         {Append(r, [channel |-> c, budget |-> b]) :
            r \in {x \in LlmReplies(n - 1) : Len(x) = n - 1},
            c \in LlmChannels, b \in LlmBudgets}

\* the routing requests
TotalBudgets == {0, 200, 1000, 5000}
ContentAnalyses ==
    {[primary_industry |-> i, newsworthiness_score |-> s[1],
      viral_potential |-> s[2]] :
        i \in {"technology", "healthcare"}, s \in {<<80, 50>>, <<50, 80>>}}
ForcedChannels ==
    {None, Some(<<>>), Some(<<"paid_media", "newswire">>),
     Some(<<"seo_optimization", "journalist_outreach", "paid_media",
            "owned_media">>)}
ChannelRoutingRequests ==
    {[content_analysis |-> ca, target_budget |-> b, urgency |-> u,
      forced_channels |-> f] :
        ca \in ContentAnalyses, b \in TotalBudgets,
        u \in {"immediate", "standard"}, f \in ForcedChannels}

\* forbidden_channels of the compliance result of the run the request
\* belongs to: none, or the one a compliance rule set forbids
ForbiddenLists == {<<>>, <<"social_media">>}

R == arequest[1]

\* process up to the call of the generative-text service in
\* _optimize_budget_allocation: filter and score the channels; the run's
\* compliance result is no part of the request
Route(request, forbidden) ==
    /\ apc = "idle"
    /\ arequest' = Some(request)
    /\ forbidden_channels' = forbidden
    /\ channel_scores' =
           _score_channels(
               _filter_channels_by_compliance(request.forced_channels),
               request.content_analysis, request.urgency,
               request.target_budget)
    /\ apc' = "await_llm"
    /\ UNCHANGED <<apath, mix, llm_reply>>
    /\ UNCHANGED <<cvars, dvars, evars, svars>>

\* call_llm_json returned `entries` as the reply's allocations: the guided
\* allocations are built, or the fallback rule runs when none is left;
\* process then builds the ChannelMix and returns
LlmReturns(entries) ==
    /\ apc = "await_llm"
    /\ LET guided == GuidedLoop(entries, channel_scores)
       IN IF guided # <<>>
          THEN /\ mix' = Some(ChannelMix(guided))
               /\ apath' = "guided"
          ELSE /\ mix' = Some(ChannelMix(
                       _fallback_allocation(channel_scores, R.target_budget)))
               /\ apath' = "fallback"
    /\ llm_reply' = Some([raised |-> FALSE, allocations |-> entries])
    /\ apc' = "done"
    /\ UNCHANGED <<arequest, channel_scores, forbidden_channels>>
    /\ UNCHANGED <<cvars, dvars, evars, svars>>

\* Faulty variant of LlmRaises: the failure of the guided step escapes the
\* allocator.
LlmRaisesEscapes ==
    /\ apc = "await_llm"
    /\ apath' = "raised"
    /\ llm_reply' = Some([raised |-> TRUE, allocations |-> <<>>])
    /\ apc' = "done"
    /\ UNCHANGED <<arequest, channel_scores, forbidden_channels, mix>>
    /\ UNCHANGED <<cvars, dvars, evars, svars>>

\* call_llm_json raised (service failure, reply that is no JSON object):
\* the fallback rule runs
LlmRaises ==
    /\ apc = "await_llm"
    /\ mix' = Some(ChannelMix(
            _fallback_allocation(channel_scores, R.target_budget)))
    /\ apath' = "fallback"
    /\ llm_reply' = Some([raised |-> TRUE, allocations |-> <<>>])
    /\ apc' = "done"
    /\ UNCHANGED <<arequest, channel_scores, forbidden_channels>>
    /\ UNCHANGED <<cvars, dvars, evars, svars>>

InitAlloc ==
    /\ CoordIdle
    /\ DeployIdle
    /\ ExecIdle
    /\ AllocIdle
    /\ SharedIdle

NextAlloc ==
    \/ \E request \in ChannelRoutingRequests, forbidden \in ForbiddenLists :
          Route(request, forbidden)
    \/ \E entries \in LlmReplies(MaxChannels) : LlmReturns(entries)
    \/ LlmRaises

SpecAlloc == InitAlloc /\ [][NextAlloc]_vars


\* ===================================================================
\* Concurrent calls of execute on one agent instance (asyncio.gather over
\* orchestrator.execute(req)): the instance attribute self.execution_log
\* ===================================================================

\* the log object self.execution_log refers to
CurrentLog == self_execution_log[1]

\* AgentExecutionLog as the call `c` creates it: its annotations and its
\* finalization are recorded with the call that wrote them
NewLog(c) ==
    [created_by |-> c, reasoning_steps |-> <<>>, success |-> FALSE,
     completed_by |-> <<>>]

\* a call is inside time.sleep(wait_time): the thread of the event loop is
\* held, so no coroutine of the loop runs until the sleep returns
Blocked == \E c \in Calls : xpc[c] = "sleep"

\* execute of call c up to the first suspension of process: the log is
\* created and stored in self.execution_log
Enter(c) ==
    /\ ~Blocked
    /\ xpc[c] = "idle"
    /\ logs' = [logs EXCEPT ![c] = Some(NewLog(c))]
    /\ self_execution_log' = Some(c)
    /\ xpc' = [xpc EXCEPT ![c] = "await_process"]
    /\ UNCHANGED xattempt
    /\ UNCHANGED <<cvars, dvars, evars, avars>>

\* process of call c resumes, calls self.log_reasoning(step) and suspends
\* again: the step is appended to whatever self.execution_log refers to
Annotate(c) ==
    /\ ~Blocked
    /\ xpc[c] = "await_process"
    /\ Len(logs[CurrentLog][1].reasoning_steps) < MaxNotes
    /\ logs' = [logs EXCEPT ![CurrentLog] =
                   Some([@[1] EXCEPT !.reasoning_steps = Append(@, c)])]
    /\ UNCHANGED <<xpc, xattempt, self_execution_log>>
    /\ UNCHANGED <<cvars, dvars, evars, avars>>

\* process of call c raised an error that is retried: the retry loop of
\* call c enters time.sleep(2 ** attempt)
Backoff(c) ==
    /\ ~Blocked
    /\ xpc[c] = "await_process"
    /\ MoreAttempts(xattempt[c], MaxRetries)
    /\ xpc' = [xpc EXCEPT ![c] = "sleep"]
    /\ UNCHANGED <<xattempt, self_execution_log, logs>>
    /\ UNCHANGED <<cvars, dvars, evars, avars>>

\* time.sleep of call c returns: the loop calls process again
Wake(c) ==
    /\ xpc[c] = "sleep"
    /\ xattempt' = [xattempt EXCEPT ![c] = @ + 1]
    /\ xpc' = [xpc EXCEPT ![c] = "await_process"]
    /\ UNCHANGED <<self_execution_log, logs>>
    /\ UNCHANGED <<cvars, dvars, evars, avars>>

\* process of call c returned (success) or raised for good: execute writes
\* the outcome through self.execution_log
Exit(c, success) ==
    /\ ~Blocked
    /\ xpc[c] = "await_process"
    /\ logs' = [logs EXCEPT ![CurrentLog] =
                   Some([@[1] EXCEPT !.success = success,
                                     !.completed_by = Append(@, c)])]
    /\ xpc' = [xpc EXCEPT ![c] = "done"]
    /\ UNCHANGED <<xattempt, self_execution_log>>
    /\ UNCHANGED <<cvars, dvars, evars, avars>>

InitShared ==
    /\ CoordIdle
    /\ DeployIdle
    /\ ExecIdle
    /\ AllocIdle
    /\ SharedIdle

NextShared ==
    \/ \E c \in Calls : Enter(c)
    \/ \E c \in Calls : Annotate(c)
    \/ \E c \in Calls : Backoff(c)
    \/ \E c \in Calls : Wake(c)
    \/ \E c \in Calls, success \in BOOLEAN : Exit(c, success)

SpecShared == InitShared /\ [][NextShared]_vars


\* The scheduler runs the Coordinator whenever it can take a step, and every
\* stage call in flight eventually returns or raises.
Progress ==
    \/ RunContentAnalysis
    \/ ReturnContentAnalysis
    \/ \E stage \in AgentStages : RaiseStage(stage)
    \/ RunComplianceCheck
    \/ \E can_proceed \in BOOLEAN : ReturnComplianceCheck(can_proceed)
    \/ GateBlocked
    \/ GatePassed
    \/ RunChannelRouting
    \/ \E channels \in Mixes : ReturnChannelRouting(channels)
    \/ RunJournalistTargeting
    \/ \E targets \in 0..MaxTargets : ReturnJournalistTargeting(targets)
    \/ RunDeployment
    \/ ReturnDeployment
    \/ CompleteRun

FairSpec == Spec /\ WF_vars(Progress)

\* ===================================================================
\* Properties
\* ===================================================================

Last(s) == s[Len(s)]

Gated ==
    /\ output # None
    /\ O.compliance_report # None
    /\ ~O.compliance_report[1].can_proceed

\* C1: a run whose compliance report has can_proceed = false starts no stage
\* after the compliance check (no allocation, targeting, deployment, analytics
\* scheduling, so zero deployment attempts) and is returned FAILED with the
\* explanatory error in its error list.
C1_GateHaltsRun ==
    Gated =>
        /\ pc \in {"gate", "returned"}
        /\ stage_calls = <<"content_analysis", "compliance_check">>
        /\ deploy_attempts = 0
        /\ analytics_scheduled = 0
        /\ O.channel_mix = None
        /\ O.journalist_targeting = None
        /\ O.distribution_results = None
        /\ pc = "returned" =>
              /\ O.status = "failed"
              /\ O.errors = <<"Failed compliance check - cannot proceed">>

C1_Witness == Gated /\ pc = "returned"

\* C2: when the execute of a stage raises, no later stage is started, the run
\* is returned FAILED with the exception's message appended to its errors, and
\* completed_at and the total duration are stamped.
C2_StageErrorAbortsRun ==
    raised # "none" =>
        /\ pc = "returned"
        /\ Last(stage_calls) = raised
        /\ analytics_scheduled = 0
        /\ O.status = "failed"
        /\ O.errors # <<>>
        /\ Last(O.errors) = ErrorText(raised)
        /\ O.completed_at # None
        /\ O.total_execution_time_seconds =
               Some(O.completed_at[1] - O.started_at)

C2_Witness ==
    /\ raised = "journalist_targeting"
    /\ pc = "returned"
    /\ O.completed_at[1] > O.started_at

Returned ==
    /\ O.status \in {"completed", "failed"}
    /\ O.completed_at # None
    /\ O.total_execution_time_seconds # None
    /\ O.total_execution_time_seconds[1] = O.completed_at[1] - O.started_at
    /\ O.total_execution_time_seconds[1] >= 0

\* C3: every started run is eventually returned, and the returned record has
\* status COMPLETED or FAILED, completed_at set, and a non-negative total
\* duration equal to completed_at - started_at.
C3_RunTerminates ==
    /\ (pc # "idle") ~> (pc = "returned")
    /\ [](pc = "returned" => Returned)

C3_Witness ==
    /\ pc = "returned"
    /\ O.status = "completed"
    /\ O.total_execution_time_seconds[1] > 0

StatusChain ==
    {<<"pending", "analyzing">>, <<"analyzing", "planning">>,
     <<"planning", "deploying">>, <<"deploying", "completed">>}

NonTerminal == {"pending", "analyzing", "planning", "deploying"}

StatusStep ==
    /\ (output = None /\ output' # None) => output'[1].status = "pending"
    /\ output # None =>
          /\ output' # None
          /\ output'[1].status # "cancelled"
          /\ \/ output'[1].status = O.status
             \/ <<O.status, output'[1].status>> \in StatusChain
             \/ O.status \in NonTerminal /\ output'[1].status = "failed"

\* C4: the status of a run starts at PENDING and every change of it is one
\* step of PENDING -> ANALYZING -> PLANNING -> DEPLOYING -> COMPLETED or goes
\* from a non-terminal status to FAILED; COMPLETED and FAILED are never left
\* and CANCELLED is never assigned.
C4_StatusTransitions == [][StatusStep]_vars

C4_Witness ==
    /\ pc = "returned"
    /\ O.status = "completed"
    /\ "deployment" \in agents

Completed(o) == SeqToSet(o.steps_completed)
Remaining(o) == SeqToSet(o.steps_remaining)

\* C5: at every point the run record can be observed, no stage name is in
\* both steps_completed and steps_remaining.
C5_StepsDisjoint ==
    (output # None /\ Observable) => Completed(O) \cap Remaining(O) = {}

C5_Witness ==
    /\ pc = Await("deployment")
    /\ Completed(O) # {}
    /\ Remaining(O) # {}

\* C6: at every point the run record can be observed, steps_completed and
\* steps_remaining together hold every stage name, except that
\* journalist_targeting is in neither once the targeting stage was skipped
\* for an allocation without a journalist-outreach channel.
C6_StepsCover ==
    (output # None /\ Observable) =>
        LET both == Completed(O) \cup Remaining(O)
        IN \/ both = SeqToSet(AllSteps)
           \/ /\ both = SeqToSet(AllSteps) \ {"journalist_targeting"}
              /\ targeting_skipped
              /\ O.channel_mix # None
              /\ ~HasJournalistOutreach(O.channel_mix[1].channels)

C6_Witness ==
    /\ pc = Await("deployment")
    /\ targeting_skipped
    /\ "journalist_targeting" \notin Completed(O) \cup Remaining(O)


D == dresult[1]
NChannels == Len(drequest.channels)

\* number of tasks whose outcome has status "success"
SuccessfulTasks ==
    Cardinality({i \in 1..Len(tasks) :
                    /\ tasks[i].st = "done"
                    /\ ~IsException(tasks[i].result[1])
                    /\ tasks[i].result[1].status = "success"})

\* C7: for a deployment over n >= 1 channels, overall_status is success iff
\* successful_deployments = n, failed iff successful_deployments = 0, and
\* partial otherwise, whatever the per-channel outcomes.
C7_OverallStatus ==
    (dpc = "done" /\ NChannels >= 1) =>
        /\ D.successful_deployments = SuccessfulTasks
        /\ D.overall_status = "success" <=> D.successful_deployments = NChannels
        /\ D.overall_status = "failed" <=> D.successful_deployments = 0
        /\ D.overall_status = "partial" <=>
              D.successful_deployments \notin {0, NChannels}

C7_Witness ==
    /\ dpc = "done"
    /\ NChannels = 2
    /\ D.overall_status = "partial"
    /\ D.successful_deployments = 1

\* C8: a deployment over an empty channel allocation list yields
\* overall_status failed with successful_deployments = 0.
C8_EmptyDeploymentFailed ==
    (dpc = "done" /\ NChannels = 0) =>
        /\ D.overall_status = "failed"
        /\ D.successful_deployments = 0

\* the outcome a channel has when only its own adapter's behaviour counts
ExpectedOutcome(alloc, request, behaviour) ==
    CASE behaviour = "ok" ->
           AdapterSuccess(alloc.channel, alloc.allocated_budget,
                          request.journalist_targets)
      [] behaviour = "raise" ->
           ChannelDeploymentResult(alloc.channel, "failed", None, None,
                                   Some(DeliveryErrorText(alloc.channel)))
      [] behaviour = "partial" ->
           ChannelDeploymentResult(alloc.channel, "partial", None, None,
                                   Some("partially delivered"))
      [] behaviour = "fail" ->
           ChannelDeploymentResult(alloc.channel, "failed", None, None,
               Some(IF /\ alloc.channel = "journalist_outreach"
                       /\ NoTargets(request.journalist_targets)
                    THEN "No journalist targets provided"
                    ELSE "rejected"))

\* C9: when the delivery operation of a channel raises, the stage still
\* returns a result; that channel has a failed outcome with the exception's
\* text, and every other channel's outcome is in channel_results with the
\* status, URL and reach its own delivery produced.
C9_RaiseIsolated ==
    (dpc = "done" /\ \E i \in 1..Len(tasks) : tasks[i].behaviour = "raise") =>
        /\ dresult # None
        /\ Len(D.channel_results) = NChannels
        /\ \A i \in 1..Len(tasks) :
              \E k \in 1..Len(D.channel_results) :
                 D.channel_results[k] =
                    ExpectedOutcome(drequest.channels[i], drequest,
                                    tasks[i].behaviour)

C9_Witness ==
    /\ dpc = "done"
    /\ NChannels = 2
    /\ tasks[1].behaviour = "raise"
    /\ tasks[2].behaviour = "ok"
    /\ D.overall_status = "partial"

\* C10: every channel's delivery operation is started before the stage waits,
\* the aggregate result exists only once every operation has settled, in
\* whatever order, and an operation still in flight can always complete,
\* whatever the others did.
C10_LaunchAllWaitAll ==
    /\ dpc = "gather" =>
          /\ Len(tasks) = NChannels
          /\ \A i \in 1..Len(tasks) : tasks[i].st \in {"scheduled", "done"}
          /\ \A i \in 1..Len(tasks) :
                tasks[i].st = "scheduled" => ENABLED DeployChannel(i, "fail")
    /\ dresult # None =>
          /\ dpc = "done"
          /\ Len(tasks) = NChannels
          /\ \A i \in 1..Len(tasks) : tasks[i].st = "done"
          /\ Len(settle_order) = NChannels
          /\ Len(D.channel_results) = NChannels

C10_Witness ==
    /\ dpc = "done"
    /\ settle_order = <<2, 1>>
    /\ tasks[2].behaviour = "raise"
    /\ tasks[1].behaviour = "ok"
    /\ D.successful_deployments = 1

\* -------------------------------------------------------------------
\* Stage Executor
\* -------------------------------------------------------------------

E == eoutcome[1]

RECURSIVE SumSeq(_)
SumSeq(s) == IF s = <<>> THEN 0 ELSE Head(s) + SumSeq(Tail(s))

\* execute raised the error of a process attempt, of class `type`
RaisedFromProcess(type) ==
    /\ eoutcome # None
    /\ E.kind = "raise"
    /\ E.error[1].origin = "process"
    /\ E.error[1].type = type

\* C12: process is never called more than max_retries times; when execute
\* raises a non-validation error of process, process was called exactly
\* max_retries times and the error raised is the one of the last attempt;
\* once process has returned, the call is over and no further attempt is made.
C12_RetryExhausted ==
    /\ invocations <= max_retries
    /\ invocations > 0 => invocations = attempt + 1
    /\ RaisedFromProcess("Exception") =>
          /\ invocations = max_retries
          /\ E.error[1].attempt = max_retries - 1
          /\ E.error = last_exception
          /\ execution_log[1].error_message = E.error
    /\ process_output # None => epc = "done"
    /\ epc = "done" /\ invocations > 0 /\ last_exception = None =>
          /\ process_output # None
          /\ invocations = 1

C12_Witness ==
    /\ epc = "done"
    /\ max_retries = 3
    /\ invocations = 3
    /\ RaisedFromProcess("Exception")
    /\ E.error[1].attempt = 2

\* C13: when process raises a ValueError in attempt i, execute raises that
\* error at once: process has been called i + 1 times and is not called
\* again, and no wait follows the failure (only the i earlier ones happened).
C13_ValidationNotRetried ==
    (last_exception # None /\ last_exception[1].type = "ValueError") =>
        /\ epc = "done"
        /\ RaisedFromProcess("ValueError")
        /\ E.error = last_exception
        /\ invocations = E.error[1].attempt + 1
        /\ Len(waited) = E.error[1].attempt

C13_Witness ==
    /\ epc = "done"
    /\ max_retries = 3
    /\ RaisedFromProcess("ValueError")
    /\ E.error[1].attempt = 1
    /\ invocations = 2
    /\ waited = <<1>>

\* C14: when execute is called with an input that is not an instance of the
\* declared input class, it raises a validation error and process is never
\* called and no delay is waited.
C14_MalformedInputRejected ==
    (epc # "idle" /\ input_data # "declared") =>
        /\ epc = "done"
        /\ E.kind = "raise"
        /\ E.error[1].type = "ValueError"
        /\ invocations = 0
        /\ waited = <<>>

\* C15: when process returns an output that is not an instance of the
\* declared output class, execute raises a validation error and process is
\* not called again.
C15_MalformedOutputRejected ==
    (process_output # None /\ process_output[1] # "declared") =>
        /\ epc = "done"
        /\ E.kind = "raise"
        /\ E.error[1].type = "ValueError"
        /\ E.error[1].origin = "validate_output"
        /\ invocations = attempt + 1

\* C16: the i-th wait of a call (i from 0) follows the failed attempt i and
\* lasts 2^i; no wait follows the last allowed attempt, a validation error
\* or a success; a call that succeeds after k failed attempts has waited
\* 2^0 + ... + 2^(k-1), and at least that much time has passed.
C16_Backoff ==
    /\ \A i \in 1..Len(waited) : waited[i] = 2 ^ (i - 1)
    /\ epc = "sleep" =>
          /\ Len(waited) = attempt + 1
          /\ attempt < max_retries - 1
    /\ epc \in {"await_process", "done"} /\ invocations > 0 =>
          Len(waited) = attempt
    /\ Len(waited) <= max_retries - 1
    /\ (eoutcome # None /\ E.kind = "return") =>
          /\ SumSeq(waited) = 2 ^ attempt - 1
          /\ execution_log[1].duration_seconds[1] >= SumSeq(waited)

C16_Witness ==
    /\ epc = "done"
    /\ E.kind = "return"
    /\ attempt = 2
    /\ waited = <<1, 2>>
    /\ execution_log[1].duration_seconds[1] >= 3

\* C17: the execution log of a call that succeeds after k failed attempts
\* records a retry count equal to k.
C17_RetryCountLogged ==
    (eoutcome # None /\ E.kind = "return") =>
        /\ "retry_count" \in DOMAIN execution_log[1]
        /\ execution_log[1].retry_count = attempt

\* -------------------------------------------------------------------
\* Channel Allocator
\* -------------------------------------------------------------------

M == mix[1]

WithinBudget(channels, total_budget) ==
    /\ \A i \in 1..Len(channels) : channels[i].allocated_budget >= 0
    /\ SumBudgets(channels) <= total_budget

\* C11: every channel mix the allocator returns, from the guided step or
\* from the fallback rule, has only budgets >= 0 and a sum of budgets that
\* is at most the request's total budget.
C11_WithinBudget ==
    mix # None => WithinBudget(M.channels, R.target_budget)

\* -------------------------------------------------------------------
\* Coordinator: conditional targeting, stage order, analytics
\* -------------------------------------------------------------------

Called(stage) == stage \in SeqToSet(stage_calls)

\* the run is past _run_parallel_targeting_and_prep
PastTargeting ==
    \/ pc \in {"run_deployment", "await_deployment", "complete"}
    \/ Called("deployment")
    \/ (pc = "returned" /\ raised = "journalist_targeting")

\* C18: the targeting stage is run exactly when the channel mix has a
\* journalist-outreach allocation, and its request carries that
\* allocation's budget; otherwise the skip branch runs: the name leaves
\* steps_remaining, does not enter steps_completed, and the run's targeting
\* result stays empty.
C18_ConditionalTargeting ==
    /\ Called("journalist_targeting") =>
          /\ O.channel_mix # None
          /\ targeting_budget # None
          /\ \E i \in 1..Len(O.channel_mix[1].channels) :
                /\ O.channel_mix[1].channels[i].channel = "journalist_outreach"
                /\ O.channel_mix[1].channels[i].allocated_budget =
                      targeting_budget[1]
          /\ ~targeting_skipped
    /\ targeting_skipped =>
          /\ \A i \in 1..Len(O.channel_mix[1].channels) :
                O.channel_mix[1].channels[i].channel # "journalist_outreach"
          /\ ~Called("journalist_targeting")
          /\ targeting_budget = None
          /\ "journalist_targeting" \notin Remaining(O)
          /\ "journalist_targeting" \notin Completed(O)
          /\ O.journalist_targeting = None
    /\ PastTargeting => (Called("journalist_targeting") \/ targeting_skipped)
    /\ ~PastTargeting /\ output # None /\ ~Called("journalist_targeting") =>
          /\ ~targeting_skipped
          /\ O.journalist_targeting = None

C18_Witness ==
    /\ pc = "returned"
    /\ O.status = "completed"
    /\ Len(O.channel_mix[1].channels) = 2
    /\ O.channel_mix[1].channels[1].allocated_budget = 600
    /\ O.channel_mix[1].channels[2].channel = "journalist_outreach"
    /\ targeting_budget = Some(0)
    /\ "journalist_targeting" \in Completed(O)

\* the stage calls of a run, in the order of process
StageOrder ==
    <<"content_analysis", "compliance_check", "channel_routing",
      "journalist_targeting", "deployment">>

StageOrderSkipping ==
    <<"content_analysis", "compliance_check", "channel_routing",
      "deployment">>

IsPrefix(s, t) == Len(s) <= Len(t) /\ s = SubSeq(t, 1, Len(s))

C20_AnalyticsFireAndForget ==
    /\ analytics_scheduled \in {0, 1}
    /\ analytics_scheduled = 1 =>
          /\ pc = "returned"
          /\ raised = "none"
          /\ ~Gated
          /\ O.distribution_results # None
          /\ "deployment" \in Completed(O)
          /\ O.status = "completed"
          /\ O.completed_at # None
          /\ O.errors = <<>>
          /\ "analytics" \in Remaining(O)
          /\ "analytics" \notin Completed(O)
    /\ (output # None /\ O.status = "completed") => analytics_scheduled = 1
    /\ (output # None /\ O.status = "failed") => analytics_scheduled = 0

C20_Witness ==
    /\ pc = "returned"
    /\ analytics_scheduled = 1
    /\ O.status = "completed"
    /\ O.distribution_results[1].overall_status = "failed"
    /\ Remaining(O) = {"analytics"}

\* -------------------------------------------------------------------
\* Concurrent runs on one agent instance
\* -------------------------------------------------------------------

\* C21: two execute calls that overlap on the same agent share no mutable
\* state: the execution log of a call holds only the reasoning steps of that
\* call and is finalized only by that call, with that call's outcome, under
\* every interleaving.
C21_LogsNotShared ==
    \A c \in Calls :
        logs[c] # None =>
            /\ SeqToSet(logs[c][1].reasoning_steps) \subseteq {c}
            /\ SeqToSet(logs[c][1].completed_by) \subseteq {c}
            /\ xpc[c] = "done" => logs[c][1].completed_by = <<c>>

\* -------------------------------------------------------------------
\* Status query
\* -------------------------------------------------------------------

\* C22: once execute of a request has returned, get_status of the request's
\* distribution id returns the record of that run, with the status, current
\* step and completed steps of the returned record; get_status of an id for
\* which no run was started returns nothing.
C22_StatusRetrieval ==
    /\ pc = "returned" =>
          /\ get_status(O.distribution_id) # None
          /\ get_status(O.distribution_id)[1].status = O.status
          /\ get_status(O.distribution_id)[1].current_step = O.current_step
          /\ get_status(O.distribution_id)[1].steps_completed =
                 O.steps_completed
          /\ get_status(O.distribution_id) = output
    /\ \A id \in StatusIds :
          (output = None \/ O.distribution_id # id) => get_status(id) = None

C22_Witness ==
    /\ pc = "returned"
    /\ O.status = "completed"
    /\ Len(O.steps_completed) >= 4
    /\ get_status(O.distribution_id) = output
    /\ get_status("d0") = None

\* -------------------------------------------------------------------
\* Channel Allocator: candidate channels and the fallback rule
\* -------------------------------------------------------------------

AllocatedChannels == {M.channels[i].channel : i \in 1..Len(M.channels)}

Forced == R.forced_channels # None /\ R.forced_channels[1] # <<>>

\* C23: when the request forces a non-empty channel subset, every channel of
\* the returned allocation, from the guided step or from the fallback rule,
\* is a member of the forced subset.
C23_ForcedSubset ==
    (apc = "done" /\ Forced) =>
        AllocatedChannels \subseteq SeqToSet(R.forced_channels[1])

\* the guided step kept one entry of the reply and dropped another that
\* names a channel outside the forced subset
C23_Witness ==
    /\ apc = "done"
    /\ Forced
    /\ apath = "guided"
    /\ \E i \in 1..Len(llm_reply[1].allocations) :
          /\ llm_reply[1].allocations[i].channel \in ChannelTypes
          /\ llm_reply[1].allocations[i].channel
                 \notin SeqToSet(R.forced_channels[1])
    /\ AllocatedChannels # {}

\* C24: when the request forces no channel subset, the candidate channels
\* are restricted by the compliance result, so no channel the compliance
\* result forbids is ever in the returned allocation.
C24_ForbiddenExcluded ==
    (apc = "done" /\ ~Forced) =>
        AllocatedChannels \cap SeqToSet(forbidden_channels) = {}

\* the guided step gave no allocation: the service call raised, or no entry
\* of the reply names a scored channel
GuidedStepFailed ==
    /\ llm_reply # None
    /\ \/ llm_reply[1].raised
       \/ GuidedLoop(llm_reply[1].allocations, channel_scores) = <<>>

\* C25: when the guided step raises, replies malformed, or yields no valid
\* allocation, the allocator does not raise: it returns the mix of the
\* fallback rule.
C25_FallbackOnFailure ==
    (apc = "done" /\ GuidedStepFailed) =>
        /\ apath = "fallback"
        /\ mix # None
        /\ M.channels = _fallback_allocation(channel_scores, R.target_budget)

C25_Witness ==
    /\ apc = "done"
    /\ llm_reply # None
    /\ llm_reply[1].raised
    /\ apath = "fallback"
    /\ Len(M.channels) >= 2

\* budget left when the fallback rule reaches the i-th entry of the mix
RemainingBefore(channels, total_budget, i) ==
    total_budget - SumBudgets(SubSeq(channels, 1, i - 1))

\* C26: the fallback allocation holds every zero-cost channel among the
\* three best scored channels, with budget 0, whatever the total budget (0
\* included) and also when a better ranked paid channel used up the budget;
\* a paid channel never gets more than the budget that remains.
C26_FreeChannelsIncluded ==
    (apc = "done" /\ apath = "fallback") =>
        /\ \A i \in 1..Len(Top(channel_scores, 3)) :
              BaseCost(channel_scores[i].channel) = 0 =>
                  \E j \in 1..Len(M.channels) :
                      /\ M.channels[j].channel = channel_scores[i].channel
                      /\ M.channels[j].allocated_budget = 0
        /\ \A j \in 1..Len(M.channels) :
              BaseCost(M.channels[j].channel) > 0 =>
                  M.channels[j].allocated_budget <=
                      RemainingBefore(M.channels, R.target_budget, j)

\* -------------------------------------------------------------------
\* Empty allocation
\* -------------------------------------------------------------------

ZeroProjections(channel_mix) ==
    /\ channel_mix.total_allocated_budget = 0
    /\ channel_mix.expected_total_reach = 0
    /\ channel_mix.expected_media_pickups = 0
    /\ channel_mix.expected_backlinks = 0
    /\ channel_mix.expected_roi_percentage.num = 0
    /\ channel_mix.expected_roi_percentage.den # 0

EmptyMix ==
    /\ output # None
    /\ O.channel_mix # None
    /\ O.channel_mix[1].channels = <<>>

\* C27: a channel mix with an empty allocation list has all aggregate
\* projections 0, computed without a division by zero, and the Coordinator
\* treats it as a valid result: the allocation step is completed, the run is
\* not FAILED because of it, and the run goes on to deployment.
C27_EmptyAllocationValid ==
    EmptyMix =>
        /\ ZeroProjections(O.channel_mix[1])
        /\ "channel_routing" \in SeqToSet(O.steps_completed)
        /\ raised = "none" => O.status # "failed"
        /\ (pc = "returned" /\ raised = "none") =>
              /\ O.status = "completed"
              /\ O.distribution_results # None
              /\ "deployment" \in SeqToSet(O.steps_completed)
              /\ "deployment" \in agents =>
                    "deployment" \in SeqToSet(stage_calls)

C27_Witness ==
    /\ EmptyMix
    /\ pc = "returned"
    /\ O.status = "completed"
    /\ "deployment" \in SeqToSet(stage_calls)
    /\ ZeroProjections(O.channel_mix[1])

\* -------------------------------------------------------------------
\* Partial deployment failure
\* -------------------------------------------------------------------

RunResults == O.distribution_results[1]

SomeButNotAllFailed ==
    /\ output # None
    /\ O.distribution_results # None
    /\ \E i \in 1..Len(RunResults.channel_results) :
          RunResults.channel_results[i].status = "success"
    /\ \E i \in 1..Len(RunResults.channel_results) :
          RunResults.channel_results[i].status # "success"

\* C28: when one or more but not all channel deployments of a run fail, the
\* deployment result has overall_status partial and an error summary that
\* names each failed channel, and the run is not failed because of it: it
\* is returned COMPLETED with an empty error list.
C28_PartialFailure ==
    SomeButNotAllFailed =>
        /\ RunResults.overall_status = "partial"
        /\ RunResults.error_summary # None
        /\ RunResults.error_summary[1] # <<>>
        /\ \A i \in 1..Len(RunResults.channel_results) :
              RunResults.channel_results[i].status # "success" =>
                  \E j \in 1..Len(RunResults.error_summary[1]) :
                      /\ RunResults.error_summary[1][j].channel =
                             RunResults.channel_results[i].channel
                      /\ RunResults.error_summary[1][j].error_message =
                             RunResults.channel_results[i].error_message
        /\ pc = "returned"
        /\ O.status = "completed"
        /\ O.errors = <<>>

\* the delivery of social_media raised, that of newswire succeeded
C28_Witness ==
    /\ SomeButNotAllFailed
    /\ pc = "returned"
    /\ RunResults.failed_deployments = 1
    /\ RunResults.successful_deployments = 1
    /\ \E i \in 1..Len(RunResults.channel_results) :
          /\ RunResults.channel_results[i].channel = "social_media"
          /\ RunResults.channel_results[i].status = "failed"
          /\ RunResults.channel_results[i].error_message =
                 Some(DeliveryErrorText("social_media"))

\* -------------------------------------------------------------------
\* Execution log of a call
\* -------------------------------------------------------------------

Log == execution_log[1]

C30_StandInsComplete ==
    (agents = {} /\ pc = "returned") =>
        /\ raised = "none"
        /\ O.status = "completed"
        /\ O.errors = <<>>
        /\ O.steps_completed =
               <<"content_analysis", "compliance_check", "channel_routing",
                 "deployment">>
        /\ targeting_skipped
        /\ O.journalist_targeting = None
        /\ O.content_analysis # None
        /\ O.compliance_report # None
        /\ O.channel_mix = Some(MockChannelMix)
        /\ O.distribution_results # None
        /\ RunResults.total_channels_deployed = Len(O.channel_mix[1].channels)
        /\ RunResults.successful_deployments =
               RunResults.total_channels_deployed
        /\ RunResults.failed_deployments = 0
        /\ RunResults.overall_status = "success"

C30_Witness ==
    /\ agents = {}
    /\ pc = "returned"
    /\ O.status = "completed"
    /\ Len(O.steps_completed) = 4
    /\ RunResults.successful_deployments = 1
    /\ O.completed_at # None

\* -------------------------------------------------------------------
\* Channel scoring
\* -------------------------------------------------------------------

\* the candidate list the scores were computed for
Candidates == _filter_channels_by_compliance(R.forced_channels)

\* position of the first occurrence of a channel in the candidate list
Encounter(channel) ==
    CHOOSE i \in 1..Len(Candidates) :
        /\ Candidates[i] = channel
        /\ \A k \in 1..(i - 1) : Candidates[k] # channel

\* C31: the scored channel list is in descending order of score, two
\* channels of equal score stand in the order in which the candidate list
\* had them, and every score lies in [0, 1] (0..100 hundredths).
C31_RankedByScore ==
    apc # "idle" =>
        /\ Len(channel_scores) = Len(Candidates)
        /\ \A i \in 1..Len(channel_scores) :
              /\ channel_scores[i].score >= 0
              /\ channel_scores[i].score <= 100
        /\ \A i, j \in 1..Len(channel_scores) :
              i < j =>
                 /\ channel_scores[i].score >= channel_scores[j].score
                 /\ channel_scores[i].score = channel_scores[j].score =>
                       Encounter(channel_scores[i].channel) <
                           Encounter(channel_scores[j].channel)

\* a forced list that is not in declaration order, two of its channels
\* with the same score, and a channel ranked ahead of an earlier candidate
C31_Witness ==
    /\ apc # "idle"
    /\ Forced
    /\ \E i, j \in 1..Len(channel_scores) :
          /\ i < j
          /\ channel_scores[i].score = channel_scores[j].score
    /\ \E i, j \in 1..Len(channel_scores) :
          /\ i < j
          /\ channel_scores[i].score > channel_scores[j].score
          /\ Encounter(channel_scores[i].channel) >
                 Encounter(channel_scores[j].channel)

\* -------------------------------------------------------------------
\* Reach and public URLs of a deployment
\* -------------------------------------------------------------------

\* what the task of channel i returned
TaskResult(i) == tasks[i].result[1]

Succeeded(i) == ~IsException(TaskResult(i)) /\ TaskResult(i).status = "success"

\* sum of the reach values of the successful tasks among the first n
RECURSIVE ReachOfSuccesses(_)
ReachOfSuccesses(n) ==
    IF n = 0 THEN 0
    ELSE ReachOfSuccesses(n - 1) +
         (IF Succeeded(n) /\ TaskResult(n).reach # None
          THEN TaskResult(n).reach[1] ELSE 0)

\* the URLs the successful tasks among the first n carry, in channel order
RECURSIVE UrlsOfSuccesses(_)
UrlsOfSuccesses(n) ==
    IF n = 0 THEN <<>>
    ELSE UrlsOfSuccesses(n - 1) \o
         (IF Succeeded(n) /\ TaskResult(n).url # None
          THEN <<TaskResult(n).url[1]>> ELSE <<>>)

\* C32: in every deployment result, initial_reach is the sum of the reach
\* values of exactly the successful channel outcomes and public_urls holds
\* exactly the URLs of the successful outcomes; an outcome that is not a
\* success contributes neither reach nor a URL.
C32_ReachAndUrls ==
    dpc = "done" =>
        /\ D.initial_reach = ReachOfSuccesses(Len(tasks))
        /\ D.public_urls = UrlsOfSuccesses(Len(tasks))
        /\ D.successful_deployments = 0 =>
              D.initial_reach = 0 /\ D.public_urls = <<>>

\* two successes that both carry reach, one of them a URL, and the total is
\* more than either reach
C32_Witness ==
    /\ dpc = "done"
    /\ NChannels = 2
    /\ D.successful_deployments = 2
    /\ Len(D.public_urls) = 1
    /\ \A i \in 1..2 : TaskResult(i).reach # None
                         /\ TaskResult(i).reach[1] > 0
                         /\ D.initial_reach > TaskResult(i).reach[1]

\* -------------------------------------------------------------------
\* Cancellation by the caller
\* -------------------------------------------------------------------

\* C33: when the caller cancels a run in progress, the driving loop of the
\* Coordinator stops and the run record is left with status CANCELLED, not
\* FAILED and not a non-terminal status.
C33_CancelledStatus ==
    pc = "cancelled" =>
        /\ get_status(O.distribution_id) = output
        /\ O.status = "cancelled"

\* -------------------------------------------------------------------
\* Time budget of an attempt
\* -------------------------------------------------------------------

\* C34: every attempt of process is bounded by a wall-clock budget: an
\* attempt that never returns is ended by the executor and handled as a
\* transient error, so execute terminates although process itself never
\* returns.
C34_AttemptsEnd == (epc = "await_process") ~> (epc = "done")

\* -------------------------------------------------------------------
\* Backoff wait and the other tasks of the event loop
\* -------------------------------------------------------------------

\* C35: the backoff wait between two attempts is cooperative: while one
\* stage invocation waits out its delay, another task of the same scheduler
\* that is ready to run can still take its step.
C35_BackoffCooperative ==
    \A c, d \in Calls :
        (xpc[c] = "sleep" /\ xpc[d] = "await_process") =>
            ENABLED Exit(d, TRUE)

\* -------------------------------------------------------------------
\* Stage results and completed steps
\* -------------------------------------------------------------------

\* the field of the run record that holds the result of a stage
StageResult(o, stage) ==
    CASE stage = "content_analysis" -> o.content_analysis
      [] stage = "compliance_check" -> o.compliance_report
      [] stage = "channel_routing" -> o.channel_mix
      [] stage = "journalist_targeting" -> o.journalist_targeting
      [] stage = "deployment" -> o.distribution_results

C38_FailedDeploymentCompletes ==
    (output # None /\ O.distribution_results # None
       /\ RunResults.overall_status = "failed") =>
        /\ pc = "returned"
        /\ raised = "none"
        /\ O.status = "completed"
        /\ O.errors = <<>>
        /\ analytics_scheduled = 1

\* two channels were deployed and both failed
C38_Witness ==
    /\ pc = "returned"
    /\ O.distribution_results # None
    /\ RunResults.overall_status = "failed"
    /\ RunResults.total_channels_deployed = 2
    /\ RunResults.failed_deployments = 2
    /\ O.status = "completed"
    /\ analytics_scheduled = 1

\* -------------------------------------------------------------------
\* One call of the Coordinator runs the pipeline once
\* -------------------------------------------------------------------

\* C39: one call of the Coordinator's execute runs the pipeline exactly
\* once and ends with the run record returned, also when a stage raised and
\* the run is FAILED: no stage is started twice, the channel deliveries are
\* started at most once per allocated channel, and analytics is scheduled at
\* most once.
C39_PipelineRunsOnce ==
    /\ \A i, j \in 1..Len(stage_calls) :
          stage_calls[i] = stage_calls[j] => i = j
    /\ deploy_attempts <=
          (IF output # None /\ O.channel_mix # None
           THEN Len(O.channel_mix[1].channels) ELSE 0)
    /\ deploy_attempts > 0 => Called("deployment")
    /\ analytics_scheduled <= 1
    /\ raised # "none" =>
          /\ pc = "returned"
          /\ O.status = "failed"
          /\ O.errors = <<ErrorText(raised)>>
          /\ get_status(O.distribution_id) = output

\* the deployment stage raised after two deliveries were started: the run
\* is returned FAILED, every stage was started once
C39_Witness ==
    /\ pc = "returned"
    /\ raised = "deployment"
    /\ O.status = "failed"
    /\ stage_calls = StageOrder
    /\ deploy_attempts = 2

\* -------------------------------------------------------------------
\* One outcome per allocated channel
\* -------------------------------------------------------------------

\* the entries of channel_results that carry the identifier `channel`
OutcomesOf(channel) ==
    {k \in 1..Len(D.channel_results) : D.channel_results[k].channel = channel}

\* the allocations of the request for `channel`
AllocationsOf(channel) ==
    {i \in 1..NChannels : drequest.channels[i].channel = channel}

\* C40: every deployment result holds exactly one outcome per allocated
\* channel, each with the channel identifier of its own allocation, and
\* successful_deployments + failed_deployments = total_channels_deployed =
\* the length of channel_results, whether the channels succeeded, failed
\* with a structured result or raised.
C40_OneOutcomePerChannel ==
    dpc = "done" =>
        /\ Len(D.channel_results) = NChannels
        /\ D.total_channels_deployed = NChannels
        /\ D.successful_deployments + D.failed_deployments =
              D.total_channels_deployed
        /\ \A channel \in ChannelTypes :
              Cardinality(OutcomesOf(channel)) =
                  Cardinality(AllocationsOf(channel))
        /\ \A i \in 1..NChannels :
              /\ ~IsException(TaskResult(i))
              /\ TaskResult(i).channel = drequest.channels[i].channel
              /\ \E k \in OutcomesOf(drequest.channels[i].channel) :
                    D.channel_results[k] = TaskResult(i)
        /\ D.successful_deployments =
              Cardinality({k \in 1..Len(D.channel_results) :
                              D.channel_results[k].status = "success"})

\* two channels other than newswire: the adapter of one raised, the other
\* delivered partially; both outcomes are counted as failed under their own
\* channel identifiers
C40_Witness ==
    /\ dpc = "done"
    /\ NChannels = 2
    /\ AllocationsOf("newswire") = {}
    /\ tasks[1].behaviour = "raise"
    /\ tasks[2].behaviour = "partial"
    /\ D.failed_deployments = 2
    /\ D.successful_deployments = 0
    /\ \A i \in 1..2 :
          D.channel_results[i].channel = drequest.channels[i].channel

====
